---- MODULE Spec2Model ----
(***************************************************************************)
(* Booking lifecycle of Digital Offices: createBooking and                 *)
(* updateBookingStatus of the booking service, with the availability       *)
(* helper isTimeWithinAvailability they depend on.  The Service,           *)
(* Availability and Booking tables are the state; instants are minutes     *)
(* since the Unix epoch (UTC).                                             *)
(***************************************************************************)
EXTENDS Integers, Sequences, FiniteSets, TLC

VARIABLES services, availability, bookings, calls, last, syncTx, observed,
          svcCall,
          reviews, reviewCalls,
          statusCalls,
          sessions, password, issued, spent, authCalls,
          profile, cache, expertCalls

vars == <<services, availability, bookings, calls, last, syncTx, observed,
          svcCall,
          reviews, reviewCalls,
          statusCalls,
          sessions, password, issued, spent, authCalls,
          profile, cache, expertCalls>>

\* The RefreshSession table, the password of each account, the number of
\* tokens generated, the tokens a refresh has rotated so far, and the auth
\* calls in flight.
authVars == <<sessions, password, issued, spent, authCalls>>

\* The public profile of expert e1 in the Expert table, the Redis entry
\* expert:profile:<username> of e1, and the profile calls in flight.
expertVars == <<profile, cache, expertCalls>>

\* The Review table and the createReview calls in flight.
reviewVars == <<reviews, reviewCalls>>

\* ------------------------------------------------------------------------
\* Bounds and input domains
\* ------------------------------------------------------------------------

\* Largest number of rows the Booking table holds in the model.
MaxBookings == 2

NULL == "null"

\* Accounts: u1 places the bookings of the calls made one after the other,
\* u2 is a second client.
Users == {"u1", "u2"}
Experts == {"e1"}
Organizations == {"o1"}
Actors == Users \cup Experts \cup Organizations

\* Requests in flight at the same time, and the user each belongs to.
Clients == {"c1", "c2"}
ClientUser == [c1 |-> "u1", c2 |-> "u2"]

\* s1, s2: active services of expert e1 and of organization o1; s3: a
\* deactivated service of e1; s4: an id with no row.
ServiceIds == {"s1", "s2", "s3", "s4"}

\* Monday 1970-01-05 (4 days after the epoch, a Thursday), h:m UTC.
Monday(h, m) == 4 * 1440 + h * 60 + m

\* The start times a request may carry. With services of 60 minutes they make
\* identical intervals, partially overlapping ones and touching ones.
StartTimes == {Monday(10, 0), Monday(10, 30), Monday(11, 0)}

\* The start times of the requests made one after another; the outcome of a
\* request for any of StartTimes is still examined in each state they reach.
SequentialStartTimes == {Monday(10, 0), Monday(10, 30)}

BOOKING_STATUS == {"PENDING", "CONFIRMED", "CANCELLED", "COMPLETED", "NO_SHOW"}

\* ------------------------------------------------------------------------
\* Errors (utils/errors.ts)
\* ------------------------------------------------------------------------

AppError(name, statusCode, code, message) ==
  [name |-> name, statusCode |-> statusCode, code |-> code, message |-> message]

BadRequestError(message) == AppError("BadRequestError", 400, "BAD_REQUEST", message)

UnauthorizedError(message) == AppError("UnauthorizedError", 401, "UNAUTHORIZED", message)

ForbiddenError(message) == AppError("ForbiddenError", 403, "FORBIDDEN", message)

NotFoundError(message) == AppError("NotFoundError", 404, "NOT_FOUND", message)

ConflictError(message) == AppError("ConflictError", 409, "CONFLICT", message)

\* The call returned normally (no error thrown).
NoError == AppError("none", 200, "OK", "")

\* ------------------------------------------------------------------------
\* Tables
\* ------------------------------------------------------------------------

\* Service rows (migration.sql, "Service"): price in cents.
ServiceRows ==
  [s1 |-> [id |-> "s1", price |-> 10000, durationMin |-> 60, isActive |-> TRUE,
           expertId |-> "e1", organizationId |-> NULL],
   s2 |-> [id |-> "s2", price |-> 5000, durationMin |-> 60, isActive |-> TRUE,
           expertId |-> NULL, organizationId |-> "o1"],
   s3 |-> [id |-> "s3", price |-> 2000, durationMin |-> 30, isActive |-> FALSE,
           expertId |-> "e1", organizationId |-> NULL]]

\* "HH:MM" as the sequence of its character codes ('0' = 48, ':' = 58).
HHMM(h1, h2, m1, m2) == <<48 + h1, 48 + h2, 58, 48 + m1, 48 + m2>>

\* Availability rows (migration.sql, "Availability"): e1 works Monday
\* 10:00-11:00. The id of a row is the expert and the position of the slot
\* in the list the expert submitted.
AvailabilityRows ==
  {[id |-> <<"e1", 1>>, expertId |-> "e1", dayOfWeek |-> 1,
    startTime |-> HHMM(1, 0, 0, 0), endTime |-> HHMM(1, 1, 0, 0)]}

\* ------------------------------------------------------------------------
\* Date and string helpers (JavaScript Date / String semantics)
\* ------------------------------------------------------------------------

getUTCDay(t) == ((t \div 1440) + 4) % 7

getUTCHours(t) == (t % 1440) \div 60

getUTCMinutes(t) == t % 60

\* n.toString().padStart(2, '0') for 0 <= n <= 99.
padStart2(n) == <<48 + (n \div 10), 48 + (n % 10)>>

\* getUTCHours().toString().padStart(2,'0') + ':' + getUTCMinutes()...
timeStr(t) == padStart2(getUTCHours(t)) \o <<58>> \o padStart2(getUTCMinutes(t))

\* a <= b in the ordering of strings (character by character).
RECURSIVE lte(_, _)
lte(a, b) ==
  IF a = <<>> THEN TRUE
  ELSE IF b = <<>> THEN FALSE
  ELSE IF Head(a) # Head(b) THEN Head(a) < Head(b)
  ELSE lte(Tail(a), Tail(b))

toLowerCase(status) ==
  CASE status = "PENDING" -> "pending"
    [] status = "CONFIRMED" -> "confirmed"
    [] status = "CANCELLED" -> "cancelled"
    [] status = "COMPLETED" -> "completed"
    [] status = "NO_SHOW" -> "no_show"

\* ------------------------------------------------------------------------
\* availability.service.ts
\* ------------------------------------------------------------------------

\* The findFirst of isTimeWithinAvailability over the rows avail.
isTimeWithinAvailability(avail, expertId, date, durationMin) ==
  LET dayOfWeek == getUTCDay(date)
      startTimeStr == timeStr(date)
      endDateTime == date + durationMin
      endTimeStr == timeStr(endDateTime)
  IN \E slot \in avail :
       /\ slot.expertId = expertId
       /\ slot.dayOfWeek = dayOfWeek
       /\ lte(slot.startTime, startTimeStr)
       /\ lte(endTimeStr, slot.endTime)

\* ------------------------------------------------------------------------
\* booking.service.ts: createBooking
\* ------------------------------------------------------------------------

\* serviceFound without the isActive condition.
serviceFoundInactiveToo(svcs, serviceId) ==
  serviceId \in DOMAIN svcs

\* prisma.service.findUnique({ where: { id: serviceId, isActive: true } })
\* finds a row.
serviceFound(svcs, serviceId) ==
  serviceId \in DOMAIN svcs /\ svcs[serviceId].isActive

\* One branch of the OR of the overlap query,
\* { <field>: { equals: id ?? undefined, not: null } }: an undefined equals
\* is no condition, not: null always is one.
providerFilter(rowId, id) ==
  /\ (id # NULL => rowId = id)
  /\ rowId # NULL

\* intervalFilter with the test for an equal start in place of the
\* intersection test.
intervalFilterSameStart(b, startTime, endTime) ==
  b.startTime = startTime

\* AND: [{ startTime: { lt: endTime } }, { endTime: { gt: startTime } }]
intervalFilter(b, startTime, endTime) ==
  /\ b.startTime < endTime
  /\ b.endTime > startTime

\* The where clause of the overlap query tx.booking.findFirst.
overlapWhere(b, expertId, organizationId, startTime, endTime) ==
  /\ \/ providerFilter(b.expertId, expertId)
     \/ providerFilter(b.organizationId, organizationId)
  /\ b.status \in {"CONFIRMED", "PENDING"}
  /\ intervalFilter(b, startTime, endTime)

\* The overlap query finds a row.
overlap(bks, expertId, organizationId, startTime, endTime) ==
  \E i \in DOMAIN bks :
    overlapWhere(bks[i], expertId, organizationId, startTime, endTime)

\* newBooking with the end left at the start (durationMs not added).
newBookingNoDuration(service, userId, startTime) ==
  [userId |-> userId,
   serviceId |-> service.id,
   expertId |-> service.expertId,
   organizationId |-> service.organizationId,
   startTime |-> startTime,
   endTime |-> startTime,
   totalPrice |-> service.price,
   notes |-> NULL,
   status |-> "PENDING"]

\* The data of tx.booking.create; the controller passes no notes.
newBooking(service, userId, startTime) ==
  [userId |-> userId,
   serviceId |-> service.id,
   expertId |-> service.expertId,
   organizationId |-> service.organizationId,
   startTime |-> startTime,
   endTime |-> startTime + service.durationMin,
   totalPrice |-> service.price,
   notes |-> NULL,
   status |-> "PENDING"]

\* A. Verify Provider's General Availability: the check passes.
withinWorkingHours(avail, service, startTime) ==
  service.expertId # NULL =>
    isTimeWithinAvailability(avail, service.expertId, startTime, service.durationMin)

\* The error the transaction callback of createBooking throws for the
\* fetched service on the rows avail and bks, NoError when it reaches the
\* insert.
transactionError(avail, bks, service, startTime) ==
  IF ~withinWorkingHours(avail, service, startTime)
  THEN BadRequestError("Selected time is outside the provider's working hours")
  ELSE IF overlap(bks, service.expertId, service.organizationId,
                  startTime, startTime + service.durationMin)
  THEN ConflictError("This time slot is already reserved")
  ELSE NoError

\* The error createBooking throws on the tables svcs, avail, bks, NoError
\* when it reaches the insert.
createBookingError(svcs, avail, bks, serviceId, startTime) ==
  IF ~serviceFound(svcs, serviceId)
  THEN NotFoundError("Service not found or is currently inactive")
  ELSE transactionError(avail, bks, svcs[serviceId], startTime)

\* The outcome of the most recent call: the operation, whether the id it
\* addressed (serviceId, bookingId) has a row, and the error it threw.
Outcome(op, rowExists, err) == [op |-> op, rowExists |-> rowExists, err |-> err]

\* The Booking rows createBooking leaves: tx.booking.create adds a row when
\* nothing was thrown.
createBookingRows(svcs, avail, bks, userId, serviceId, startTime) ==
  IF createBookingError(svcs, avail, bks, serviceId, startTime) = NoError
  THEN Append(bks, newBooking(svcs[serviceId], userId, startTime))
  ELSE bks

\* A createBooking call that runs from its first statement to its return
\* with no other call in between.
createBooking(userId, serviceId, startTime) ==
  LET err == createBookingError(services, availability, bookings, serviceId, startTime)
  IN /\ err = NoError => Len(bookings) < MaxBookings
     /\ bookings' = createBookingRows(services, availability, bookings,
                                      userId, serviceId, startTime)
     /\ last' = Outcome("createBooking", serviceId \in DOMAIN services, err)
     /\ UNCHANGED <<expertVars, authVars, statusCalls, reviewVars, svcCall, syncTx, observed, services, availability, calls>>

\* ------------------------------------------------------------------------
\* booking.service.ts: updateBookingStatus
\* ------------------------------------------------------------------------

\* bookingFound without the OR over the actor.
bookingFoundAnyActor(bks, bookingId, actorId) ==
  bookingId \in DOMAIN bks

\* prisma.booking.findFirst({ where: { id, OR: [userId, expertId,
\* organizationId equal actorId] } }) finds a row.
bookingFound(bks, bookingId, actorId) ==
  /\ bookingId \in DOMAIN bks
  /\ \/ bks[bookingId].userId = actorId
     \/ bks[bookingId].expertId = actorId
     \/ bks[bookingId].organizationId = actorId

\* redundantUpdate as in the earlier updateBookingStatus, which had no such
\* check.
redundantUpdateNever(booking, status) ==
  FALSE

\* 2. Prevent redundant updates.
redundantUpdate(booking, status) ==
  booking.status = status

\* selfConfirm with the comparison of the actor inverted.
selfConfirmInverted(booking, status, actorId) ==
  status = "CONFIRMED" /\ booking.userId # actorId

\* 3. Users can't "Confirm" their own booking.
selfConfirm(booking, status, actorId) ==
  status = "CONFIRMED" /\ booking.userId = actorId

\* The error updateBookingStatus throws, NoError when it reaches the update.
updateBookingStatusError(bks, bookingId, status, actorId) ==
  IF ~bookingFound(bks, bookingId, actorId)
  THEN NotFoundError("Booking not found or you are not authorized to modify it")
  ELSE IF redundantUpdate(bks[bookingId], status)
  THEN BadRequestError("Booking is already " \o toLowerCase(status))
  ELSE IF selfConfirm(bks[bookingId], status, actorId)
  THEN UnauthorizedError("Users cannot confirm their own bookings")
  ELSE NoError

\* update as an updateMany with no where clause: every row takes the status.
updateEveryRow(bks, bookingId, status) ==
  [i \in DOMAIN bks |-> [bks[i] EXCEPT !.status = status]]

\* prisma.booking.update({ where: { id: bookingId }, data: { status } })
update(bks, bookingId, status) ==
  [bks EXCEPT ![bookingId].status = status]

\* The Booking rows updateBookingStatus leaves: the update runs when nothing
\* was thrown.
updateBookingStatusRows(bks, bookingId, status, actorId) ==
  IF updateBookingStatusError(bks, bookingId, status, actorId) = NoError
  THEN update(bks, bookingId, status)
  ELSE bks

\* An updateBookingStatus call that runs from its first statement to its
\* return with no other call in between.
updateBookingStatus(bookingId, status, actorId) ==
  LET err == updateBookingStatusError(bookings, bookingId, status, actorId)
  IN /\ bookings' = updateBookingStatusRows(bookings, bookingId, status, actorId)
     /\ last' = Outcome("updateBookingStatus", bookingId \in DOMAIN bookings, err)
     /\ UNCHANGED <<expertVars, authVars, statusCalls, reviewVars, svcCall, syncTx, observed, services, availability, calls>>

\* ------------------------------------------------------------------------
\* Calls made one after the other
\* ------------------------------------------------------------------------

\* Ids a status update may address in the rows bks: those of the rows (the
\* n-th row inserted has id n) and 0, an id that never has a row.
BookingIds(bks) == {0} \cup DOMAIN bks

NoService ==
  [id |-> NULL, price |-> 0, durationMin |-> 0, isActive |-> FALSE,
   expertId |-> NULL, organizationId |-> NULL]

\* No replacement of a weekly schedule in flight.
NoSync ==
  [pc |-> "idle", expertId |-> NULL, slots |-> <<>>, old |-> {}, rows |-> {},
   err |-> NoError]

\* No schedule read so far.
NoRead ==
  [op |-> "none", expertId |-> NULL, date |-> 0, durationMin |-> 0,
   rows |-> <<>>, within |-> FALSE, txpc |-> "idle"]

\* No updateService or deleteService call in flight.
NoServiceCall ==
  [pc |-> "idle", op |-> "none", serviceId |-> NULL, ownerId |-> NULL,
   count |-> 0, data |-> <<>>, err |-> NoError]

\* A client with no createReview call in flight.
NoReviewCall ==
  [pc |-> "idle", bookingId |-> 0, userId |-> NULL, err |-> NoError]

\* A client with no updateBookingStatus call in flight.
NoStatusCall ==
  [pc |-> "idle", bookingId |-> 0, status |-> NULL, actorId |-> NULL,
   err |-> NoError]

\* The accounts that log in.
AuthAccounts == {"u1"}

\* A client with no auth call in flight. token is the refresh token the call
\* presents, session the row it found, cred the password it verified.
NoAuthCall ==
  [pc |-> "idle", op |-> "none", account |-> NULL, token |-> 0, cred |-> 0,
   issuedToken |-> 0, err |-> NoError]

\* A client with no profile call in flight. value is the profile the call
\* has read or written.
NoExpertCall == [pc |-> "idle", op |-> "none", value |-> NULL]

\* A client with no request in flight.
Idle ==
  [pc |-> "idle", serviceId |-> NULL, startTime |-> 0, service |-> NoService,
   err |-> NoError]

Init ==
  /\ services = ServiceRows
  /\ availability = AvailabilityRows
  /\ bookings = <<>>
  /\ calls = [c \in Clients |-> Idle]
  /\ last = Outcome("none", FALSE, NoError)
  /\ syncTx = NoSync
  /\ observed = NoRead
  /\ svcCall = NoServiceCall
  /\ profile = "h0"
  /\ cache = NULL
  /\ expertCalls = [c \in Clients |-> NoExpertCall]
  /\ sessions = {}
  /\ password = [account \in AuthAccounts |-> 0]
  /\ issued = 0
  /\ spent = {}
  /\ authCalls = [c \in Clients |-> NoAuthCall]
  /\ statusCalls = [c \in Clients |-> NoStatusCall]
  /\ reviews = <<>>
  /\ reviewCalls = [c \in Clients |-> NoReviewCall]

Next ==
  \/ \E serviceId \in ServiceIds, startTime \in SequentialStartTimes :
       createBooking("u1", serviceId, startTime)
  \/ \E bookingId \in BookingIds(bookings), status \in BOOKING_STATUS, actorId \in Actors :
       updateBookingStatus(bookingId, status, actorId)

Spec == Init /\ [][Next]_vars

\* ------------------------------------------------------------------------
\* Concurrent createBooking requests, statement by statement
\* ------------------------------------------------------------------------

Call(pc, serviceId, startTime, service, err) ==
  [pc |-> pc, serviceId |-> serviceId, startTime |-> startTime,
   service |-> service, err |-> err]

\* The call of client c ends, throwing err (NoError: it returns the booking).
return(c, err) ==
  [calls EXCEPT ![c].pc = "done", ![c].err = err]

\* 1. Fetch Service details (outside TX).
fetchService(c, serviceId, startTime) ==
  /\ calls[c].pc = "idle"
  /\ calls' = [calls EXCEPT ![c] =
       IF serviceFound(services, serviceId)
       THEN Call("availability", serviceId, startTime, services[serviceId], NoError)
       ELSE Call("done", serviceId, startTime, NoService,
                 NotFoundError("Service not found or is currently inactive"))]
  /\ UNCHANGED <<expertVars, authVars, statusCalls, reviewVars, svcCall, syncTx, observed, services, availability, bookings, last>>

\* A. Verify Provider's General Availability.
verifyAvailability(c) ==
  /\ calls[c].pc = "availability"
  /\ calls' = IF withinWorkingHours(availability, calls[c].service, calls[c].startTime)
              THEN [calls EXCEPT ![c].pc = "overlap"]
              ELSE return(c, BadRequestError("Selected time is outside the provider's working hours"))
  /\ UNCHANGED <<expertVars, authVars, statusCalls, reviewVars, svcCall, syncTx, observed, services, availability, bookings, last>>

\* B. Check for Overlapping Bookings: the findFirst reads the committed rows.
checkOverlap(c) ==
  /\ calls[c].pc = "overlap"
  /\ calls' = IF overlap(bookings, calls[c].service.expertId,
                         calls[c].service.organizationId, calls[c].startTime,
                         calls[c].startTime + calls[c].service.durationMin)
              THEN return(c, ConflictError("This time slot is already reserved"))
              ELSE [calls EXCEPT ![c].pc = "create"]
  /\ UNCHANGED <<expertVars, authVars, statusCalls, reviewVars, svcCall, syncTx, observed, services, availability, bookings, last>>

\* PrismaClientKnownRequestError P2003, what a statement that breaks
\* Booking_serviceId_fkey throws; the error handler replies 500.
ForeignKeyError ==
  AppError("PrismaClientKnownRequestError", 500, "P2003",
           "Foreign key constraint failed")

\* Booking_serviceId_fkey on insert: the Service row referenced exists.
serviceReferenced(svcs, serviceId) == serviceId \in DOMAIN svcs

\* C. Create the Booking, and the commit that ends the transaction: the row
\* is invisible to the other requests until the commit. The insert of a row
\* whose Service row is gone breaks the foreign key and throws.
createTheBooking(c) ==
  /\ calls[c].pc = "create"
  /\ Len(bookings) < MaxBookings
  /\ IF serviceReferenced(services, calls[c].service.id)
     THEN /\ bookings' = Append(bookings,
                                newBooking(calls[c].service, ClientUser[c],
                                           calls[c].startTime))
          /\ calls' = return(c, NoError)
     ELSE /\ calls' = return(c, ForeignKeyError)
          /\ UNCHANGED bookings
  /\ UNCHANGED <<expertVars, authVars, statusCalls, reviewVars, svcCall, syncTx, observed, services, availability, last>>

\* createBookingHandler sends the reply; the client is free for a new request.
reply(c) ==
  /\ calls[c].pc = "done"
  /\ calls' = [calls EXCEPT ![c] = Idle]
  /\ UNCHANGED <<expertVars, authVars, statusCalls, reviewVars, svcCall, syncTx, observed, services, availability, bookings, last>>

NextInterleaved ==
  \/ \E c \in Clients, serviceId \in ServiceIds, startTime \in StartTimes :
       fetchService(c, serviceId, startTime)
  \/ \E c \in Clients : verifyAvailability(c)
  \/ \E c \in Clients : checkOverlap(c)
  \/ \E c \in Clients : createTheBooking(c)
  \/ \E c \in Clients : reply(c)

\* createBooking as written: the statements of concurrent requests
\* interleave, each reading the rows committed so far (READ COMMITTED, the
\* isolation level of a $transaction that names none).
SpecInterleaved == Init /\ [][NextInterleaved]_vars

\* The transaction callback of createBooking (steps A, B, C) as one
\* serializable unit.
transaction(c) ==
  LET err == transactionError(availability, bookings, calls[c].service,
                              calls[c].startTime)
  IN /\ calls[c].pc = "availability"
     /\ err = NoError => Len(bookings) < MaxBookings
     /\ bookings' = IF err = NoError
                    THEN Append(bookings, newBooking(calls[c].service, ClientUser[c],
                                                     calls[c].startTime))
                    ELSE bookings
     /\ calls' = return(c, err)
     /\ UNCHANGED <<expertVars, authVars, statusCalls, reviewVars, svcCall, syncTx, observed, services, availability, last>>

NextSerializable ==
  \/ \E c \in Clients, serviceId \in ServiceIds, startTime \in StartTimes :
       fetchService(c, serviceId, startTime)
  \/ \E c \in Clients : transaction(c)
  \/ \E c \in Clients : reply(c)

SpecSerializable == Init /\ [][NextSerializable]_vars

\* ------------------------------------------------------------------------
\* Properties
\* ------------------------------------------------------------------------

active(b) == b.status \in {"PENDING", "CONFIRMED"}

sameProvider(a, b) ==
  \/ a.expertId # NULL /\ a.expertId = b.expertId
  \/ a.organizationId # NULL /\ a.organizationId = b.organizationId

intersects(aStart, aEnd, bStart, bEnd) == aStart < bEnd /\ aEnd > bStart

\* C1: no two distinct PENDING/CONFIRMED bookings of the same provider have
\* intersecting [start, end) intervals, in any state reached by createBooking
\* and updateBookingStatus calls made one after the other.
NoDoubleBooking ==
  \A i, j \in DOMAIN bookings :
    (i # j /\ sameProvider(bookings[i], bookings[j])
           /\ active(bookings[i]) /\ active(bookings[j]))
      => ~intersects(bookings[i].startTime, bookings[i].endTime,
                     bookings[j].startTime, bookings[j].endTime)

\* Two finished createBooking requests of different clients for the same
\* provider and intersecting intervals.
rivals(c, d) ==
  /\ c # d
  /\ calls[c].pc = "done" /\ calls[d].pc = "done"
  /\ sameProvider(calls[c].service, calls[d].service)
  /\ intersects(calls[c].startTime, calls[c].startTime + calls[c].service.durationMin,
                calls[d].startTime, calls[d].startTime + calls[d].service.durationMin)

InterleavedAtMostOneInserted ==
  \A c, d \in Clients :
    rivals(c, d) => ~(calls[c].err = NoError /\ calls[d].err = NoError)

\* The PENDING/CONFIRMED rows of the provider of service that intersect
\* [startTime, startTime + durationMin).
conflicting(service, startTime) ==
  {i \in DOMAIN bookings :
     /\ active(bookings[i])
     /\ sameProvider(service, bookings[i])
     /\ intersects(bookings[i].startTime, bookings[i].endTime,
                   startTime, startTime + service.durationMin)}

\* C4: for an active service whose working-hours check passes, createBooking
\* fails with ConflictError if and only if a PENDING or CONFIRMED booking of
\* the same provider intersects the requested interval (so bookings that
\* only touch, or intersect only CANCELLED, COMPLETED or NO_SHOW bookings,
\* are accepted).
ConflictIffSameProviderOverlap ==
  \A serviceId \in ServiceIds, startTime \in StartTimes :
    (/\ serviceFound(services, serviceId)
     /\ withinWorkingHours(availability, services[serviceId], startTime))
      => (createBookingError(services, availability, bookings, serviceId, startTime)
            = ConflictError("This time slot is already reserved")
          <=> conflicting(services[serviceId], startTime) # {})

\* C5: createBooking for a service of provider P is not rejected with
\* ConflictError when P has no PENDING/CONFIRMED booking intersecting the
\* requested interval, whatever bookings other providers hold.
ProvidersIndependent ==
  \A serviceId \in ServiceIds, startTime \in StartTimes :
    (/\ serviceFound(services, serviceId)
     /\ conflicting(services[serviceId], startTime) = {})
      => createBookingError(services, availability, bookings, serviceId,
                            startTime).name # "ConflictError"

\* The edges of the booking status state machine.
Edges ==
  {<<"PENDING", "CONFIRMED">>, <<"CONFIRMED", "COMPLETED">>,
   <<"PENDING", "CANCELLED">>, <<"CONFIRMED", "CANCELLED">>,
   <<"CONFIRMED", "NO_SHOW">>}

Terminal == {"CANCELLED", "COMPLETED", "NO_SHOW"}

\* actorId is the user, the expert or the organization of booking bookingId.
party(bookingId, actorId) ==
  /\ bookingId \in DOMAIN bookings
  /\ actorId \in {bookings[bookingId].userId, bookings[bookingId].expertId,
                  bookings[bookingId].organizationId}

\* C6: a status change requested by a party of the booking, other than the
\* user confirming their own booking, succeeds if and only if (old status,
\* new status) is an edge of the state machine; a rejected request leaves
\* the bookings unchanged.
SucceedsIffEdge ==
  \A bookingId \in BookingIds(bookings), status \in BOOKING_STATUS, actorId \in Actors :
    (/\ party(bookingId, actorId)
     /\ ~(status = "CONFIRMED" /\ actorId = bookings[bookingId].userId))
      => LET err == updateBookingStatusError(bookings, bookingId, status, actorId)
             rows == updateBookingStatusRows(bookings, bookingId, status, actorId)
         IN /\ err = NoError <=> <<bookings[bookingId].status, status>> \in Edges
            /\ err = NoError => rows[bookingId].status = status
            /\ err # NoError => rows = bookings

\* C7: a booking whose status is CANCELLED, COMPLETED or NO_SHOW keeps that
\* status in every later state.
TerminalAbsorbing ==
  [][\A bookingId \in DOMAIN bookings :
       bookings[bookingId].status \in Terminal
         => bookings'[bookingId].status = bookings[bookingId].status]_vars

\* C8: updateBookingStatus by an actor that is not the user, the expert or
\* the organization of an existing booking throws NotFoundError, the same
\* error (name, status code, code and message) as any call for an id with no
\* row, and leaves the bookings unchanged.
UnauthorizedIsNotFound ==
  LET noRow == updateBookingStatusError(bookings, 0, "PENDING", "u1")
  IN /\ noRow.name = "NotFoundError"
     /\ \A anyStatus \in BOOKING_STATUS, anyActor \in Actors :
          updateBookingStatusError(bookings, 0, anyStatus, anyActor) = noRow
     /\ \A bookingId \in DOMAIN bookings, status \in BOOKING_STATUS, actorId \in Actors :
          ~party(bookingId, actorId)
            => /\ updateBookingStatusError(bookings, bookingId, status, actorId) = noRow
               /\ updateBookingStatusRows(bookings, bookingId, status, actorId) = bookings

\* C8 witness: the last call was an updateBookingStatus on an existing
\* booking that threw NotFoundError.
UnauthorizedWitness ==
  /\ last.op = "updateBookingStatus"
  /\ last.rowExists
  /\ last.err.name = "NotFoundError"

\* C9: in every state updateBookingStatus to CONFIRMED by the booking's own
\* user is rejected and changes nothing; a booking is inserted with a status
\* other than CONFIRMED, and every step that makes a booking CONFIRMED is an
\* updateBookingStatus call by its expert or its organization.
NoSelfConfirm ==
  /\ [](\A bookingId \in DOMAIN bookings :
          LET userId == bookings[bookingId].userId
          IN /\ updateBookingStatusError(bookings, bookingId, "CONFIRMED", userId) # NoError
             /\ updateBookingStatusRows(bookings, bookingId, "CONFIRMED", userId) = bookings)
  /\ [][\A bookingId \in DOMAIN bookings' :
          (/\ bookings'[bookingId].status = "CONFIRMED"
           /\ bookingId \in DOMAIN bookings => bookings[bookingId].status # "CONFIRMED")
            => /\ bookingId \in DOMAIN bookings
               /\ \E actorId \in {bookings[bookingId].expertId,
                                  bookings[bookingId].organizationId} \ {NULL} :
                    updateBookingStatus(bookingId, "CONFIRMED", actorId)]_vars

\* C9 witness: a user was refused the confirmation of their own booking
\* while another booking has been confirmed.
SelfConfirmWitness ==
  /\ last.op = "updateBookingStatus"
  /\ last.err = UnauthorizedError("Users cannot confirm their own bookings")
  /\ \E i \in DOMAIN bookings : bookings[i].status = "CONFIRMED"

\* C10 as stated: every updateBookingStatus that requests the status the
\* booking currently has throws the BadRequestError 'already <status>' and
\* leaves the bookings unchanged.
RedundantAlwaysBadRequest ==
  \A bookingId \in DOMAIN bookings, actorId \in Actors :
    LET status == bookings[bookingId].status
    IN /\ updateBookingStatusError(bookings, bookingId, status, actorId)
            = BadRequestError("Booking is already " \o toLowerCase(status))
       /\ updateBookingStatusRows(bookings, bookingId, status, actorId) = bookings

\* C10 amended: updateBookingStatus that requests the status the booking
\* currently has fails and leaves the bookings unchanged, with the
\* BadRequestError 'already <status>' when the actor is the user, the expert
\* or the organization of the booking and with NotFoundError when it is not;
\* and the request of any updateBookingStatus call, applied again right
\* after it, fails.
RedundantRejected ==
  /\ \A bookingId \in DOMAIN bookings, actorId \in Actors :
       LET status == bookings[bookingId].status
       IN /\ updateBookingStatusError(bookings, bookingId, status, actorId)
               = IF party(bookingId, actorId)
                 THEN BadRequestError("Booking is already " \o toLowerCase(status))
                 ELSE NotFoundError("Booking not found or you are not authorized to modify it")
          /\ updateBookingStatusRows(bookings, bookingId, status, actorId) = bookings
  /\ \A bookingId \in BookingIds(bookings), status \in BOOKING_STATUS, actorId \in Actors :
       updateBookingStatusError(
         updateBookingStatusRows(bookings, bookingId, status, actorId),
         bookingId, status, actorId) # NoError

\* C10 witness: the last call asked for CANCELLED on a booking that is
\* already cancelled.
RedundantWitness ==
  /\ last.op = "updateBookingStatus"
  /\ last.err = BadRequestError("Booking is already cancelled")
  /\ \E i \in DOMAIN bookings : bookings[i].status = "CANCELLED"

\* ------------------------------------------------------------------------
\* service.service.ts and service.controller.ts
\* ------------------------------------------------------------------------

\* The role of the session of an account (JwtPayload.role).
Role(account) ==
  IF account \in Users THEN "user"
  ELSE IF account \in Experts THEN "expert"
  ELSE "organization"

\* The accounts the service routes let through: authorize([EXPERT,
\* ORGANIZATION]).
Providers == Experts \cup Organizations

\* throw new Error(message): no statusCode and no code, which the error
\* handler answers with 500 and INTERNAL_SERVER_ERROR.
Error(message) == AppError("Error", 500, "INTERNAL_SERVER_ERROR", message)

\* The id prisma.service.create gives the new row.
NewServiceId == "s4"

\* The services the catalog requests address: s1, which has a row from the
\* start, and s4, which gets one from createService.
CatalogServiceIds == {"s1", "s4"}

\* Bodies of POST /services that pass CreateServiceSchema: a price, a
\* duration and at least one of expertId and organizationId, which need not
\* be the caller's.
ServiceBodies ==
  {[price |-> 3000, durationMin |-> 30, expertId |-> x, organizationId |-> y] :
     <<x, y>> \in {<<"e1", NULL>>, <<NULL, "o1">>, <<"e1", "o1">>}}

\* Bodies of PATCH /services/:serviceId that pass UpdateServiceSchema: each
\* carries the fields to change.
ServiceUpdates ==
  {[price |-> 12000], [durationMin |-> 30], [isActive |-> FALSE]}

\* createServiceData with the owner ids of the body left as sent.
createServiceDataFromBody(user, body) ==
  body

\* createServiceHandler: { ...request.body, expertId, organizationId } with
\* the two ids taken from the role of the session.
createServiceData(user, body) ==
  [price |-> body.price,
   durationMin |-> body.durationMin,
   expertId |-> IF Role(user) = "expert" THEN user ELSE NULL,
   organizationId |-> IF Role(user) = "organization" THEN user ELSE NULL]

\* The error createService throws for data, NoError when it reaches the
\* create.
createServiceError(data) ==
  IF data.expertId = NULL /\ data.organizationId = NULL
  THEN Error("Service must be owned by an Expert or an Organization")
  ELSE NoError

\* The Service rows createService leaves: prisma.service.create adds a row,
\* isActive by its default.
createServiceRows(svcs, data) ==
  IF createServiceError(data) = NoError
  THEN [s \in DOMAIN svcs \cup {NewServiceId} |->
          IF s = NewServiceId
          THEN [id |-> NewServiceId, price |-> data.price,
                durationMin |-> data.durationMin, isActive |-> TRUE,
                expertId |-> data.expertId, organizationId |-> data.organizationId]
          ELSE svcs[s]]
  ELSE svcs

\* POST /services by user: createServiceHandler and the createService call
\* it makes.
createService(user, body) ==
  LET data == createServiceData(user, body)
  IN /\ NewServiceId \notin DOMAIN services
     /\ services' = createServiceRows(services, data)
     /\ last' = Outcome("createService", FALSE, createServiceError(data))
     /\ UNCHANGED <<expertVars, authVars, statusCalls, reviewVars, svcCall, syncTx, observed, availability, bookings, calls>>

\* prisma.service.findFirst({ where: { id: serviceId, OR: [{ expertId:
\* ownerId }, { organizationId: ownerId }] } }) finds a row.
serviceOwned(svcs, serviceId, ownerId) ==
  /\ serviceId \in DOMAIN svcs
  /\ \/ svcs[serviceId].expertId = ownerId
     \/ svcs[serviceId].organizationId = ownerId

updateServiceError(svcs, serviceId, ownerId) ==
  IF ~serviceOwned(svcs, serviceId, ownerId)
  THEN Error("Service not found or you do not have permission to edit it")
  ELSE NoError

\* The Service rows updateService leaves: prisma.service.update({ where:
\* { id: serviceId }, data }) sets the fields data carries.
updateServiceRows(svcs, serviceId, ownerId, data) ==
  IF updateServiceError(svcs, serviceId, ownerId) = NoError
  THEN [svcs EXCEPT ![serviceId] =
          [f \in DOMAIN svcs[serviceId] |->
             IF f \in DOMAIN data THEN data[f] ELSE svcs[serviceId][f]]]
  ELSE svcs

\* serviceWriteBookings for a Booking table that follows its service: the
\* rows of a changed service take its price and its duration.
serviceWriteBookingsFollowing(svcs, bks) ==
  [i \in DOMAIN bks |->
     IF bks[i].serviceId \in DOMAIN svcs
     THEN [bks[i] EXCEPT !.totalPrice = svcs[bks[i].serviceId].price,
                         !.endTime = bks[i].startTime
                                       + svcs[bks[i].serviceId].durationMin]
     ELSE bks[i]]

\* The Booking rows after a write that left the Service rows svcs:
\* prisma.service.update and prisma.service.delete write the Service table
\* only, and the Booking columns totalPrice, startTime and endTime are the
\* row's own.
serviceWriteBookings(svcs, bks) ==
  bks

\* PATCH /services/:serviceId by user: updateServiceHandler and the
\* updateService call it makes.
updateService(serviceId, ownerId, data) ==
  /\ services' = updateServiceRows(services, serviceId, ownerId, data)
  /\ bookings' = serviceWriteBookings(services', bookings)
  /\ last' = Outcome("updateService", serviceId \in DOMAIN services,
                     updateServiceError(services, serviceId, ownerId))
  /\ UNCHANGED <<expertVars, authVars, statusCalls, reviewVars, svcCall, syncTx, observed, availability, calls>>

\* service._count.bookings
bookingsCount(bks, serviceId) ==
  Cardinality({i \in DOMAIN bks : bks[i].serviceId = serviceId})

deleteServiceError(svcs, serviceId, ownerId) ==
  IF ~serviceOwned(svcs, serviceId, ownerId)
  THEN Error("Service not found or unauthorized")
  ELSE NoError

\* The Service rows deleteService leaves: the row is deactivated when it has
\* bookings and deleted when it has none.
deleteServiceRows(svcs, bks, serviceId, ownerId) ==
  IF deleteServiceError(svcs, serviceId, ownerId) # NoError THEN svcs
  ELSE IF bookingsCount(bks, serviceId) > 0
  THEN [svcs EXCEPT ![serviceId].isActive = FALSE]
  ELSE [s \in DOMAIN svcs \ {serviceId} |-> svcs[s]]

\* DELETE /services/:serviceId by user: deleteServiceHandler and the
\* deleteService call it makes, with no other call in between.
deleteService(serviceId, ownerId) ==
  /\ services' = deleteServiceRows(services, bookings, serviceId, ownerId)
  /\ bookings' = serviceWriteBookings(services', bookings)
  /\ last' = Outcome("deleteService", serviceId \in DOMAIN services,
                     deleteServiceError(services, serviceId, ownerId))
  /\ UNCHANGED <<expertVars, authVars, statusCalls, reviewVars, svcCall, syncTx, observed, availability, calls>>

NextCatalog ==
  \/ \E serviceId \in CatalogServiceIds, startTime \in SequentialStartTimes :
       createBooking("u1", serviceId, startTime)
  \/ \E user \in Providers, body \in ServiceBodies :
       createService(user, body)
  \/ \E serviceId \in CatalogServiceIds, user \in Providers, data \in ServiceUpdates :
       updateService(serviceId, user, data)
  \/ \E serviceId \in CatalogServiceIds, user \in Providers :
       deleteService(serviceId, user)

\* Bookings placed while the providers create, change and delete services,
\* the calls made one after another.
SpecCatalog == Init /\ [][NextCatalog]_vars

\* ------------------------------------------------------------------------
\* Properties of the rows createBooking inserts and of the service catalog
\* ------------------------------------------------------------------------

\* The row is what a createBooking of userId for service at startTime
\* inserts, by the fields the booking is specified to have.
insertedFor(row, service, userId, startTime) ==
  /\ row.status = "PENDING"
  /\ row.startTime = startTime
  /\ row.endTime = startTime + service.durationMin
  /\ row.totalPrice = service.price
  /\ row.userId = userId
  /\ row.serviceId = service.id
  /\ row.expertId = service.expertId
  /\ row.organizationId = service.organizationId

\* C11: a successful createBooking appends exactly one row, with status
\* PENDING, endTime = startTime + durationMin of the service, totalPrice =
\* price of the service, userId = the caller and the expertId and
\* organizationId of the service, the service taken as it is stored at the
\* call; and every step that adds a row adds such a row.
InsertedBookingFields ==
  /\ [](\A userId \in Users, serviceId \in ServiceIds, startTime \in StartTimes :
          createBookingError(services, availability, bookings, serviceId, startTime) = NoError
            => LET rows == createBookingRows(services, availability, bookings,
                                             userId, serviceId, startTime)
               IN /\ Len(rows) = Len(bookings) + 1
                  /\ \A i \in DOMAIN bookings : rows[i] = bookings[i]
                  /\ insertedFor(rows[Len(rows)], services[serviceId], userId, startTime))
  /\ [][Len(bookings') # Len(bookings)
          => /\ Len(bookings') = Len(bookings) + 1
             /\ bookings'[Len(bookings')].serviceId \in DOMAIN services
             /\ insertedFor(bookings'[Len(bookings')],
                            services[bookings'[Len(bookings')].serviceId],
                            bookings'[Len(bookings')].userId,
                            bookings'[Len(bookings')].startTime)]_vars

\* C11 witness: the last call was a createBooking that inserted a booking of
\* a service whose price and duration had been changed before.
InsertedBookingWitness ==
  /\ last.op = "createBooking"
  /\ last.err = NoError
  /\ bookings # <<>>
  /\ bookings[Len(bookings)].totalPrice = 12000
  /\ bookings[Len(bookings)].endTime = bookings[Len(bookings)].startTime + 30

\* C12: no step changes the totalPrice, the startTime or the endTime of an
\* existing booking, and none removes a booking: the values are those stored
\* at creation whatever updateService and deleteService calls follow.
SnapshotsKept ==
  [][\A i \in DOMAIN bookings :
       /\ i \in DOMAIN bookings'
       /\ bookings'[i].totalPrice = bookings[i].totalPrice
       /\ bookings'[i].startTime = bookings[i].startTime
       /\ bookings'[i].endTime = bookings[i].endTime]_vars

\* C12 witness: a booking whose service has since got another price and
\* another duration and was deactivated by deleteService.
SnapshotsWitness ==
  /\ last.op = "deleteService"
  /\ last.err = NoError
  /\ \E i \in DOMAIN bookings :
       /\ bookings[i].serviceId \in DOMAIN services
       /\ services[bookings[i].serviceId].price # bookings[i].totalPrice
       /\ services[bookings[i].serviceId].durationMin
            # bookings[i].endTime - bookings[i].startTime
       /\ ~services[bookings[i].serviceId].isActive

\* Exactly one of expertId and organizationId of the row is non-null.
oneOwner(row) ==
  (row.expertId = NULL) # (row.organizationId = NULL)

\* C13: every Service and every Booking has exactly one of expertId and
\* organizationId non-null, and the pair of a Booking is the pair of the
\* Service its serviceId names, which has a row.
OneOwnerMirrored ==
  /\ \A s \in DOMAIN services : oneOwner(services[s])
  /\ \A i \in DOMAIN bookings :
       /\ oneOwner(bookings[i])
       /\ bookings[i].serviceId \in DOMAIN services
       /\ bookings[i].expertId = services[bookings[i].serviceId].expertId
       /\ bookings[i].organizationId = services[bookings[i].serviceId].organizationId

\* C13 witness: a service created through POST /services by organization o1,
\* with a booking.
OneOwnerWitness ==
  /\ NewServiceId \in DOMAIN services
  /\ services[NewServiceId].organizationId = "o1"
  /\ \E i \in DOMAIN bookings : bookings[i].serviceId = NewServiceId

\* An id that no Service row ever has.
NoSuchService == "s0"

\* C14: createBooking for a serviceId with no row and createBooking for a
\* service whose isActive is false throw the same NotFoundError (name, status
\* code, code and message), the one thrown for an id that never had a row,
\* and leave the bookings unchanged.
InactiveIsNotFound ==
  \A serviceId \in ServiceIds, startTime \in StartTimes, userId \in Users :
    (serviceId \notin DOMAIN services \/ ~services[serviceId].isActive)
      => LET err == createBookingError(services, availability, bookings,
                                       serviceId, startTime)
         IN /\ err.name = "NotFoundError"
            /\ err = createBookingError(services, availability, bookings,
                                        NoSuchService, startTime)
            /\ createBookingRows(services, availability, bookings,
                                 userId, serviceId, startTime) = bookings

\* C14 witness: the last call was a createBooking for a service that has a
\* row, deactivated, and threw NotFoundError, while another id has no row.
InactiveWitness ==
  /\ last.op = "createBooking"
  /\ last.rowExists
  /\ last.err.name = "NotFoundError"
  /\ \E serviceId \in CatalogServiceIds :
       serviceId \in DOMAIN services /\ ~services[serviceId].isActive
  /\ \E serviceId \in CatalogServiceIds : serviceId \notin DOMAIN services

\* ------------------------------------------------------------------------
\* availability.routes.ts and availability.service.ts: the weekly schedule
\* ------------------------------------------------------------------------

\* The experts that PUT /availability (authorize([ROLES.EXPERT])): e1, and
\* e2, an expert with no service.
Schedulers == {"e1", "e2"}

\* Longest list of slots of the bodies examined.
MaxSlots == 2

Slot(dayOfWeek, startTime, endTime) ==
  [dayOfWeek |-> dayOfWeek, startTime |-> startTime, endTime |-> endTime]

\* Monday 10:00-11:00 and Monday 23:00-23:59.
SlotMorning == Slot(1, HHMM(1, 0, 0, 0), HHMM(1, 1, 0, 0))
SlotLate == Slot(1, HHMM(2, 3, 0, 0), HHMM(2, 3, 5, 9))

\* Slots the schema refuses: end before start, end equal to start, day 7,
\* "9:00" and "24:00".
SlotEndBeforeStart == Slot(1, HHMM(1, 1, 0, 0), HHMM(1, 0, 0, 0))
SlotEndAtStart == Slot(1, HHMM(1, 0, 0, 0), HHMM(1, 0, 0, 0))
SlotDaySeven == Slot(7, HHMM(1, 0, 0, 0), HHMM(1, 1, 0, 0))
SlotNotPadded == Slot(1, <<57, 58, 48, 48>>, HHMM(1, 1, 0, 0))
SlotHour24 == Slot(1, HHMM(1, 0, 0, 0), HHMM(2, 4, 0, 0))

SlotCandidates ==
  {SlotMorning, SlotLate, SlotEndBeforeStart, SlotEndAtStart, SlotDaySeven,
   SlotNotPadded, SlotHour24}

\* Every list of at most MaxSlots of the candidate slots.
SlotLists == UNION {[1 .. n -> SlotCandidates] : n \in 0 .. MaxSlots}

\* The lists the PUT /availability requests of the model carry.
ScheduleBodies ==
  {<<>>, <<SlotMorning>>, <<SlotLate>>, <<SlotMorning, SlotLate>>,
   <<SlotMorning, SlotEndBeforeStart>>, <<SlotDaySeven>>, <<SlotNotPadded>>}

\* The lists of the PUT /availability requests whose statements interleave
\* with reads.
InterleavedBodies ==
  {<<>>, <<SlotLate>>, <<SlotMorning, SlotLate>>,
   <<SlotMorning, SlotEndBeforeStart>>}

\* The start times of the bookings requested while schedules change: a
\* 60-minute booking at 10:00 fits Monday 10:00-11:00 exactly, at 10:01 it
\* ends one minute late, at 23:00 and 23:30 it ends on Tuesday.
ScheduleStartTimes ==
  {Monday(10, 0), Monday(10, 1), Monday(23, 0), Monday(23, 30)}

isDigit(c) == c \in 48 .. 57

\* /^([01]\d|2[0-3]):([0-5]\d)$/ matches s.
timeStringRegex(s) ==
  /\ Len(s) = 5
  /\ \/ s[1] \in {48, 49} /\ isDigit(s[2])
     \/ s[1] = 50 /\ s[2] \in 48 .. 51
  /\ s[3] = 58
  /\ s[4] \in 48 .. 53
  /\ isDigit(s[5])

\* Number of the two digits a, b ("HH" or "MM" of a split time string).
Number(a, b) == (a - 48) * 10 + (b - 48)

\* slotSchemaOk without the refinement: the day and the two regexes only.
slotSchemaOkNoRefine(slot) ==
  /\ slot.dayOfWeek \in 0 .. 6
  /\ timeStringRegex(slot.startTime)
  /\ timeStringRegex(slot.endTime)

\* One element of SyncAvailabilitySchema.slots parses: the day, the two
\* regexes and the refinement endH > startH || (endH === startH && endM >
\* startM).
slotSchemaOk(slot) ==
  /\ slot.dayOfWeek \in 0 .. 6
  /\ timeStringRegex(slot.startTime)
  /\ timeStringRegex(slot.endTime)
  /\ LET startH == Number(slot.startTime[1], slot.startTime[2])
         startM == Number(slot.startTime[4], slot.startTime[5])
         endH == Number(slot.endTime[1], slot.endTime[2])
         endM == Number(slot.endTime[4], slot.endTime[5])
     IN endH > startH \/ (endH = startH /\ endM > startM)

\* The body { slots } passes SyncAvailabilitySchema.
SyncAvailabilitySchema(slots) ==
  \A i \in DOMAIN slots : slotSchemaOk(slots[i])

\* The reply to a body the validator refuses: 422 VALIDATION_ERROR.
ValidationError == AppError("ZodError", 422, "VALIDATION_ERROR", "Validation Error")

\* The createMany statement failed in the database.
DatabaseError == Error("createMany failed")

\* deleteMany that removes nothing.
deleteManyNothing(rows, expertId) ==
  rows

\* tx.availability.deleteMany({ where: { expertId } })
deleteMany(rows, expertId) ==
  {r \in rows : r.expertId # expertId}

\* tx.availability.createMany({ data: slots.map(slot => ({ ...slot,
\* expertId })) })
createMany(rows, expertId, slots) ==
  rows \cup {[id |-> <<expertId, i>>, expertId |-> expertId,
              dayOfWeek |-> slots[i].dayOfWeek,
              startTime |-> slots[i].startTime,
              endTime |-> slots[i].endTime] : i \in DOMAIN slots}

\* rolledBack that keeps what the transaction had written.
rolledBackKeepsWrites(committed, rows) ==
  rows

\* The committed rows after a $transaction whose callback threw: the writes
\* it made (rows) are rolled back.
rolledBack(committed, rows) ==
  committed

\* The error a PUT /availability ends with: the validator refuses the body
\* before the handler runs, the insert may fail in the database.
syncAvailabilityError(slots, insertFails) ==
  IF ~SyncAvailabilitySchema(slots) THEN ValidationError
  ELSE IF insertFails THEN DatabaseError
  ELSE NoError

\* The committed Availability rows a PUT /availability leaves.
syncAvailabilityRows(avail, expertId, slots, insertFails) ==
  IF ~SyncAvailabilitySchema(slots) THEN avail
  ELSE IF insertFails THEN rolledBack(avail, deleteMany(avail, expertId))
  ELSE createMany(deleteMany(avail, expertId), expertId, slots)

\* The rows of expertId.
slotsOf(avail, expertId) == {r \in avail : r.expertId = expertId}

\* PUT /availability by user with no other request running: the validation
\* of the body, syncAvailabilityHandler and the syncAvailability transaction.
syncAvailability(user, slots, insertFails) ==
  /\ availability' = syncAvailabilityRows(availability, user, slots, insertFails)
  /\ last' = Outcome("syncAvailability", slotsOf(availability, user) # {},
                     syncAvailabilityError(slots, insertFails))
  /\ UNCHANGED <<expertVars, authVars, statusCalls, reviewVars, svcCall, syncTx, observed, services, bookings, calls>>

NextSchedule ==
  \/ \E user \in Schedulers, slots \in ScheduleBodies, insertFails \in BOOLEAN :
       syncAvailability(user, slots, insertFails)
  \/ \E serviceId \in {"s1", "s2"}, startTime \in ScheduleStartTimes :
       createBooking("u1", serviceId, startTime)

\* Bookings requested while the experts replace their schedules, the calls
\* made one after another.
SpecSchedule == Init /\ [][NextSchedule]_vars

\* ------------------------------------------------------------------------
\* Properties of the working-hours check and of the schedule replacement
\* ------------------------------------------------------------------------

\* Minutes after midnight of a stored "HH:MM".
minutesOf(s) == Number(s[1], s[2]) * 60 + Number(s[4], s[5])

\* Minutes after midnight (UTC) of an instant.
timeOfDay(t) == t % 1440

\* The start times the working-hours properties examine.
ExaminedStartTimes == StartTimes \cup ScheduleStartTimes

OutsideWorkingHours ==
  BadRequestError("Selected time is outside the provider's working hours")

\* The working-hours check passes exactly when the expert has a slot on the
\* UTC weekday of the start with slot.startTime <= time of day of the start
\* and slot.endTime >= time of day of start + durationMin.
coveredBySlot(service, startTime) ==
  \E slot \in availability :
    /\ slot.expertId = service.expertId
    /\ slot.dayOfWeek = getUTCDay(startTime)
    /\ minutesOf(slot.startTime) <= timeOfDay(startTime)
    /\ minutesOf(slot.endTime) >= timeOfDay(startTime + service.durationMin)

WorkingHoursIffCovered ==
  \A serviceId \in DOMAIN services, startTime \in ExaminedStartTimes :
    services[serviceId].expertId # NULL
      => (withinWorkingHours(availability, services[serviceId], startTime)
            <=> coveredBySlot(services[serviceId], startTime))

\* A booking of an expert's active service that starts exactly at the start
\* of a stored slot and ends exactly at its end is not refused for working
\* hours; one that starts within the only slot of the expert and ends one
\* minute after its end is refused with the working-hours error.
WorkingHoursBoundaries ==
  \A slot \in availability, serviceId \in DOMAIN services,
     startTime \in ExaminedStartTimes :
    LET service == services[serviceId]
        start == timeOfDay(startTime)
        err == createBookingError(services, availability, bookings,
                                  serviceId, startTime)
    IN (/\ service.isActive
        /\ service.expertId = slot.expertId
        /\ getUTCDay(startTime) = slot.dayOfWeek)
         => /\ (/\ start = minutesOf(slot.startTime)
                /\ start + service.durationMin = minutesOf(slot.endTime))
                 => err # OutsideWorkingHours
            /\ (/\ start >= minutesOf(slot.startTime)
                /\ start + service.durationMin = minutesOf(slot.endTime) + 1
                /\ slotsOf(availability, slot.expertId) = {slot})
                 => err = OutsideWorkingHours

\* createBooking for a service of an organization never throws the
\* working-hours error.
OrganizationAlwaysAvailable ==
  \A serviceId \in DOMAIN services, startTime \in ExaminedStartTimes :
    services[serviceId].organizationId # NULL
      => createBookingError(services, availability, bookings, serviceId, startTime)
           # OutsideWorkingHours

\* C15: for a service of an expert the working-hours check passes if and
\* only if a slot of the expert on the UTC weekday of the start covers the
\* times of day of start and end, boundaries included: the booking that fits
\* a slot exactly is accepted, the one that ends one minute after the end of
\* the slot is refused with the working-hours BadRequestError; a service of
\* an organization is never refused for working hours.
WorkingHoursInclusive ==
  /\ WorkingHoursIffCovered
  /\ WorkingHoursBoundaries
  /\ OrganizationAlwaysAvailable

\* Durations of services (whole minutes, at least 5) the midnight property
\* examines.
ExaminedDurations == {5, 30, 60, 90}

\* The booking [startTime, startTime + durationMin) ends on a later UTC
\* calendar day than it starts.
spansMidnight(startTime, durationMin) ==
  (startTime + durationMin) \div 1440 > startTime \div 1440

\* C16: isTimeWithinAvailability is false for every start and duration whose
\* end falls on a later UTC calendar day than the start, whatever slots are
\* stored, and no booking of an expert spans midnight.
MidnightNeverMatches ==
  /\ \A expertId \in Schedulers, startTime \in ExaminedStartTimes,
        durationMin \in ExaminedDurations :
       spansMidnight(startTime, durationMin)
         => ~isTimeWithinAvailability(availability, expertId, startTime, durationMin)
  /\ \A i \in DOMAIN bookings :
       bookings[i].expertId # NULL
         => ~spansMidnight(bookings[i].startTime,
                           bookings[i].endTime - bookings[i].startTime)

\* The slots (day, start, end) of the rows.
slotsStored(rows) ==
  {Slot(r.dayOfWeek, r.startTime, r.endTime) : r \in rows}

\* C17: a PUT /availability of an expert that succeeds leaves as the rows of
\* that expert exactly the submitted slots, one row for each element of the
\* list (none for the empty list) and no earlier row, and leaves the rows of
\* every other expert as they were; every step changes the rows of at most
\* one expert.
FullReplace ==
  /\ [](\A expertId \in Schedulers, slots \in SlotLists :
          syncAvailabilityError(slots, FALSE) = NoError
            => LET rows == syncAvailabilityRows(availability, expertId, slots, FALSE)
               IN /\ slotsStored(slotsOf(rows, expertId))
                       = {slots[i] : i \in DOMAIN slots}
                  /\ Cardinality(slotsOf(rows, expertId)) = Len(slots)
                  /\ rows \ slotsOf(rows, expertId)
                       = availability \ slotsOf(availability, expertId))
  /\ [][\A a, b \in Schedulers :
          (/\ slotsOf(availability', a) # slotsOf(availability, a)
           /\ slotsOf(availability', b) # slotsOf(availability, b)) => a = b]_vars

\* C17 witness: after replacements that succeeded, e1 holds only Monday
\* 23:00-23:59 (its first slot, Monday 10:00-11:00, is gone) and e2 holds
\* slots of its own.
FullReplaceWitness ==
  /\ last.op = "syncAvailability"
  /\ last.err = NoError
  /\ slotsOf(availability, "e1") = createMany({}, "e1", <<SlotLate>>)
  /\ slotsOf(availability, "e2") = createMany({}, "e2", <<SlotMorning, SlotLate>>)

\* ------------------------------------------------------------------------
\* PUT /availability statement by statement, with concurrent readers
\* ------------------------------------------------------------------------

\* The schedule transaction has begun and has neither committed nor rolled
\* back.
inFlight(tx) == tx.pc \in {"delete", "create", "commit"}

\* The validator, then syncAvailabilityHandler calls syncAvailability: the
\* $transaction begins. rows is the table as the transaction sees it.
beginSync(user, slots) ==
  /\ syncTx.pc = "idle"
  /\ syncTx' = [pc |-> IF SyncAvailabilitySchema(slots) THEN "delete" ELSE "done",
                expertId |-> user, slots |-> slots,
                old |-> availability, rows |-> availability,
                err |-> IF SyncAvailabilitySchema(slots) THEN NoError
                        ELSE ValidationError]
  /\ UNCHANGED <<expertVars, authVars, statusCalls, reviewVars, svcCall, services, availability, bookings, calls, last, observed>>

\* 1. Wipe existing availability for this expert (uncommitted).
wipeExisting ==
  /\ syncTx.pc = "delete"
  /\ syncTx' = [syncTx EXCEPT !.pc = "create",
                              !.rows = deleteMany(syncTx.rows, syncTx.expertId)]
  /\ UNCHANGED <<expertVars, authVars, statusCalls, reviewVars, svcCall, services, availability, bookings, calls, last, observed>>

\* 2. Create the new set of slots (uncommitted); when the statement fails
\* the callback throws and the transaction is rolled back.
createNewSlots(insertFails) ==
  /\ syncTx.pc = "create"
  /\ IF insertFails
     THEN /\ syncTx' = [syncTx EXCEPT !.pc = "done", !.err = DatabaseError]
          /\ availability' = rolledBack(availability, syncTx.rows)
     ELSE /\ syncTx' = [syncTx EXCEPT !.pc = "commit",
                          !.rows = createMany(syncTx.rows, syncTx.expertId, syncTx.slots)]
          /\ UNCHANGED availability
  /\ UNCHANGED <<expertVars, authVars, statusCalls, reviewVars, svcCall, services, bookings, calls, last, observed>>

\* The callback returned: the transaction commits.
commitSync ==
  /\ syncTx.pc = "commit"
  /\ availability' = syncTx.rows
  /\ syncTx' = [syncTx EXCEPT !.pc = "done"]
  /\ UNCHANGED <<expertVars, authVars, statusCalls, reviewVars, svcCall, services, bookings, calls, last, observed>>

\* syncAvailabilityHandler (or the error handler) sends the reply.
replySync ==
  /\ syncTx.pc = "done"
  /\ last' = Outcome("syncAvailability", slotsOf(syncTx.old, syncTx.expertId) # {},
                     syncTx.err)
  /\ syncTx' = NoSync
  /\ UNCHANGED <<expertVars, authVars, statusCalls, reviewVars, svcCall, services, availability, bookings, calls, observed>>

\* snapshot that shows the uncommitted writes of the transaction in flight.
snapshotUncommitted(committed, tx) ==
  IF inFlight(tx) THEN tx.rows ELSE committed

\* The rows a statement on the client prisma (outside the transaction) reads
\* while tx is in flight: the committed ones (READ COMMITTED).
snapshot(committed, tx) ==
  committed

\* orderBy: [{ dayOfWeek: 'asc' }, { startTime: 'asc' }]; the order of rows
\* with equal day and start is not determined.
orderBy(rows) ==
  CHOOSE list \in [1 .. Cardinality(rows) -> rows] :
    /\ {list[i] : i \in DOMAIN list} = rows
    /\ \A i, j \in DOMAIN list :
         i < j => \/ list[i].dayOfWeek < list[j].dayOfWeek
                  \/ /\ list[i].dayOfWeek = list[j].dayOfWeek
                     /\ lte(list[i].startTime, list[j].startTime)

\* What a read at this moment returned, and the statement a schedule
\* transaction of the same expert is at.
Read(op, expertId, date, durationMin, rows, within) ==
  [op |-> op, expertId |-> expertId, date |-> date, durationMin |-> durationMin,
   rows |-> rows, within |-> within,
   txpc |-> IF syncTx.expertId = expertId THEN syncTx.pc ELSE "idle"]

\* GET /availability/:expertId
getAvailabilityByExpert(expertId) ==
  /\ observed' = Read("getAvailabilityByExpert", expertId, 0, 0,
                      orderBy(slotsOf(snapshot(availability, syncTx), expertId)),
                      FALSE)
  /\ UNCHANGED <<expertVars, authVars, statusCalls, reviewVars, svcCall, services, availability, bookings, calls, last, syncTx>>

\* A call of isTimeWithinAvailability (by a createBooking in flight).
callIsTimeWithinAvailability(expertId, date, durationMin) ==
  /\ observed' = Read("isTimeWithinAvailability", expertId, date, durationMin, <<>>,
                      isTimeWithinAvailability(snapshot(availability, syncTx),
                                               expertId, date, durationMin))
  /\ UNCHANGED <<expertVars, authVars, statusCalls, reviewVars, svcCall, services, availability, bookings, calls, last, syncTx>>

NextScheduleInterleaved ==
  \/ \E user \in Schedulers, slots \in InterleavedBodies : beginSync(user, slots)
  \/ wipeExisting
  \/ \E insertFails \in BOOLEAN : createNewSlots(insertFails)
  \/ commitSync
  \/ replySync
  \/ \E expertId \in Schedulers : getAvailabilityByExpert(expertId)
  \/ \E expertId \in Schedulers :
       callIsTimeWithinAvailability(expertId, Monday(10, 0), 60)

\* One schedule replacement at a time, its statements interleaved with the
\* reads of other requests.
SpecScheduleInterleaved == Init /\ [][NextScheduleInterleaved]_vars

\* Every zero-padded 24-hour "HH:MM".
TimesOfDay ==
  {padStart2(h) \o <<58>> \o padStart2(m) : h \in 0 .. 23, m \in 0 .. 59}

\* The slot meets the input constraints of replaceWeeklySchedule: day in
\* 0..6, start and end zero-padded 24-hour HH:MM, end strictly after start.
slotAsRequired(slot) ==
  /\ slot.dayOfWeek \in 0 .. 6
  /\ slot.startTime \in TimesOfDay
  /\ slot.endTime \in TimesOfDay
  /\ minutesOf(slot.endTime) > minutesOf(slot.startTime)

\* The validator lets through exactly the lists all of whose slots meet the
\* constraints.
InvalidListsRefused ==
  \A slots \in SlotLists :
    SyncAvailabilitySchema(slots) <=> \A i \in DOMAIN slots : slotAsRequired(slots[i])

\* C18: a PUT /availability that fails leaves the stored schedule exactly as
\* it was before the request: a list with a slot that breaks a constraint is
\* refused with the validation error before any statement runs, and when the
\* insert fails after the delete the transaction is rolled back; until the
\* commit the stored rows are those from before the request.
FailedReplaceKeepsSchedule ==
  /\ InvalidListsRefused
  /\ (syncTx.pc # "idle" /\ ~SyncAvailabilitySchema(syncTx.slots))
       => syncTx.pc = "done" /\ syncTx.err = ValidationError
  /\ (syncTx.pc = "done" /\ syncTx.err # NoError) => availability = syncTx.old
  /\ inFlight(syncTx) => availability = syncTx.old

\* C18 witness: the insert of a replacement failed after its delete had
\* removed the rows of the expert, and the request before was refused by the
\* validator.
FailedReplaceWitness ==
  /\ syncTx.pc = "done"
  /\ syncTx.err = DatabaseError
  /\ slotsOf(syncTx.old, syncTx.expertId) # {}
  /\ slotsOf(syncTx.rows, syncTx.expertId) = {}
  /\ last.err = ValidationError

\* C19: while a replacement of the schedule of an expert is in flight, what
\* getAvailabilityByExpert and isTimeWithinAvailability return for that
\* expert is what they return on the schedule from before the replacement or
\* on the schedule it submits, never on the rows between the delete and the
\* insert.
ReadsSeeOldOrNew ==
  \A expertId \in Schedulers :
    (inFlight(syncTx) /\ syncTx.expertId = expertId)
      => LET seen == snapshot(availability, syncTx)
             old == syncTx.old
             new == createMany(deleteMany(syncTx.old, expertId), expertId, syncTx.slots)
         IN /\ {orderBy(slotsOf(seen, expertId))[i] : i \in 1 .. Cardinality(slotsOf(seen, expertId))}
                 \in {slotsOf(old, expertId), slotsOf(new, expertId)}
            /\ \A startTime \in ExaminedStartTimes :
                 isTimeWithinAvailability(seen, expertId, startTime, 60)
                   \in {isTimeWithinAvailability(old, expertId, startTime, 60),
                        isTimeWithinAvailability(new, expertId, startTime, 60)}

\* C19 witness: getAvailabilityByExpert ran between the delete and the insert
\* of a replacement for the same expert and returned the rows from before
\* it, which differ from the rows submitted.
ReadsWitness ==
  /\ observed.op = "getAvailabilityByExpert"
  /\ observed.txpc = "create"
  /\ syncTx.pc = "create"
  /\ syncTx.expertId = observed.expertId
  /\ observed.rows # <<>>
  /\ slotsOf(syncTx.rows, syncTx.expertId) = {}
  /\ syncTx.slots # <<>>
  /\ slotsStored(slotsOf(syncTx.old, syncTx.expertId))
       # {syncTx.slots[i] : i \in DOMAIN syncTx.slots}

\* ------------------------------------------------------------------------
\* The two business failures of createBooking
\* ------------------------------------------------------------------------

AlreadyReserved == ConflictError("This time slot is already reserved")

\* The working-hours failure and the overlap failure differ in class, in
\* HTTP status (400 and 409) and in code.
BusinessErrorsDistinct ==
  /\ OutsideWorkingHours.statusCode = 400
  /\ AlreadyReserved.statusCode = 409
  /\ OutsideWorkingHours.name # AlreadyReserved.name
  /\ OutsideWorkingHours.code # AlreadyReserved.code

\* The request overlaps a PENDING or CONFIRMED booking of the provider of
\* the service.
overlapsActive(service, startTime) ==
  \E i \in DOMAIN bookings :
    /\ \/ service.expertId # NULL /\ bookings[i].expertId = service.expertId
       \/ service.organizationId # NULL
          /\ bookings[i].organizationId = service.organizationId
    /\ bookings[i].status \in {"PENDING", "CONFIRMED"}
    /\ bookings[i].startTime < startTime + service.durationMin
    /\ bookings[i].endTime > startTime

\* createBooking throws the overlap error only when its own working-hours
\* check has passed, and the working-hours error whenever that check fails.
WorkingHoursCheckedFirst ==
  \A serviceId \in DOMAIN services, startTime \in ExaminedStartTimes :
    LET service == services[serviceId]
        err == createBookingError(services, availability, bookings,
                                  serviceId, startTime)
    IN service.isActive
         => /\ ~withinWorkingHours(availability, service, startTime)
                 => err = OutsideWorkingHours
            /\ err = AlreadyReserved
                 => withinWorkingHours(availability, service, startTime)

\* createBooking that throws either business failure inserts no booking.
RefusedInsertsNothing ==
  \A serviceId \in DOMAIN services, startTime \in ExaminedStartTimes :
    createBookingError(services, availability, bookings, serviceId, startTime)
        \in {OutsideWorkingHours, AlreadyReserved}
      => createBookingRows(services, availability, bookings, "u1",
                           serviceId, startTime) = bookings

\* A request for an active service of an expert that no slot of the expert
\* covers and that overlaps an active booking of the expert is refused with
\* the working-hours error.
OutsideAndOverlappingIsOutside ==
  \A serviceId \in DOMAIN services, startTime \in ExaminedStartTimes :
    LET service == services[serviceId]
    IN (/\ service.isActive
        /\ service.expertId # NULL
        /\ \/ ~coveredBySlot(service, startTime)
           \/ spansMidnight(startTime, service.durationMin)
        /\ overlapsActive(service, startTime))
         => createBookingError(services, availability, bookings,
                               serviceId, startTime) = OutsideWorkingHours

\* C20: createBooking reports outside working hours with the 400
\* BadRequestError and overlap with the 409 ConflictError, never the same
\* kind for both; a request that is both outside the working hours of the
\* expert and overlapping an active booking is refused with the
\* working-hours error; in either case no booking is inserted.
DistinctBusinessErrors ==
  /\ BusinessErrorsDistinct
  /\ RefusedInsertsNothing
  /\ OutsideAndOverlappingIsOutside

\* ------------------------------------------------------------------------
\* updateService and deleteService statement by statement, with createBooking
\* ------------------------------------------------------------------------

\* The start times of the bookings placed while services are written: two
\* intervals of 60 minutes that touch, so both can be inserted.
CatalogStartTimes == {Monday(10, 0), Monday(11, 0)}

\* The service the interleaved calls address, and its owner.
WrittenServiceIds == {"s1"}

\* The changes updateService is asked for in the interleaved calls.
InterleavedUpdates == {[isActive |-> FALSE], [price |-> 12000]}

ServiceCall(pc, op, serviceId, ownerId, count, data, err) ==
  [pc |-> pc, op |-> op, serviceId |-> serviceId, ownerId |-> ownerId,
   count |-> count, data |-> data, err |-> err]

\* prisma.service.findFirst of updateService (ownership check).
findServiceToUpdate(serviceId, ownerId, data) ==
  /\ svcCall.pc = "idle"
  /\ svcCall' = IF serviceOwned(services, serviceId, ownerId)
                THEN ServiceCall("write", "updateService", serviceId, ownerId, 0,
                                 data, NoError)
                ELSE ServiceCall("done", "updateService", serviceId, ownerId, 0, data,
                                 updateServiceError(services, serviceId, ownerId))
  /\ UNCHANGED <<expertVars, authVars, statusCalls, reviewVars, services, availability, bookings, calls, last, syncTx, observed>>

\* prisma.service.findFirst of deleteService, with _count.bookings.
findServiceToDelete(serviceId, ownerId) ==
  /\ svcCall.pc = "idle"
  /\ svcCall' = IF serviceOwned(services, serviceId, ownerId)
                THEN ServiceCall("write", "deleteService", serviceId, ownerId,
                                 bookingsCount(bookings, serviceId), <<>>, NoError)
                ELSE ServiceCall("done", "deleteService", serviceId, ownerId, 0, <<>>,
                                 deleteServiceError(services, serviceId, ownerId))
  /\ UNCHANGED <<expertVars, authVars, statusCalls, reviewVars, services, availability, bookings, calls, last, syncTx, observed>>

\* Booking_serviceId_fkey ON DELETE RESTRICT lets the Service row go.
restrictAllowsEverything(bks, serviceId) == TRUE

restrictAllows(bks, serviceId) == bookingsCount(bks, serviceId) = 0

\* prisma.service.update({ where: { id }, data }) of updateService.
writeUpdate ==
  /\ svcCall.pc = "write"
  /\ svcCall.op = "updateService"
  /\ services' = [services EXCEPT ![svcCall.serviceId] =
       [f \in DOMAIN services[svcCall.serviceId] |->
          IF f \in DOMAIN svcCall.data THEN svcCall.data[f]
          ELSE services[svcCall.serviceId][f]]]
  /\ svcCall' = [svcCall EXCEPT !.pc = "done"]
  /\ UNCHANGED <<expertVars, authVars, statusCalls, reviewVars, availability, bookings, calls, last, syncTx, observed>>

\* The write of deleteService: prisma.service.update({ isActive: false })
\* when the row counted bookings, prisma.service.delete when it counted
\* none; the delete of a row that a booking references by now is refused by
\* the foreign key and throws.
writeDelete ==
  /\ svcCall.pc = "write"
  /\ svcCall.op = "deleteService"
  /\ IF svcCall.count > 0
     THEN /\ services' = [services EXCEPT ![svcCall.serviceId].isActive = FALSE]
          /\ svcCall' = [svcCall EXCEPT !.pc = "done"]
     ELSE IF restrictAllows(bookings, svcCall.serviceId)
     THEN /\ services' = [s \in DOMAIN services \ {svcCall.serviceId} |-> services[s]]
          /\ svcCall' = [svcCall EXCEPT !.pc = "done"]
     ELSE /\ svcCall' = [svcCall EXCEPT !.pc = "done", !.err = ForeignKeyError]
          /\ UNCHANGED services
  /\ UNCHANGED <<expertVars, authVars, statusCalls, reviewVars, availability, bookings, calls, last, syncTx, observed>>

\* The handler (or the error handler) sends the reply.
replyService ==
  /\ svcCall.pc = "done"
  /\ svcCall' = NoServiceCall
  /\ UNCHANGED <<expertVars, authVars, statusCalls, reviewVars, services, availability, bookings, calls, last, syncTx, observed>>

NextCatalogInterleaved ==
  \/ \E serviceId \in WrittenServiceIds, startTime \in CatalogStartTimes :
       fetchService("c1", serviceId, startTime)
  \/ verifyAvailability("c1")
  \/ checkOverlap("c1")
  \/ createTheBooking("c1")
  \/ reply("c1")
  \/ \E serviceId \in WrittenServiceIds, data \in InterleavedUpdates :
       findServiceToUpdate(serviceId, "e1", data)
  \/ \E serviceId \in WrittenServiceIds : findServiceToDelete(serviceId, "e1")
  \/ writeUpdate
  \/ writeDelete
  \/ replyService

\* A client places bookings for a service while its expert changes and
\* deletes it, the statements of the calls interleaved.
SpecCatalogInterleaved == Init /\ [][NextCatalogInterleaved]_vars

\* ------------------------------------------------------------------------
\* Properties of the interleaved service writes
\* ------------------------------------------------------------------------

ServiceDeactivatedWitness ==
  /\ svcCall.op = "deleteService"
  /\ svcCall.pc = "done"
  /\ svcCall.count > 0
  /\ ~services[svcCall.serviceId].isActive

\* A service without bookings was removed by deleteService.
ServiceRemovedWitness ==
  /\ svcCall.op = "deleteService"
  /\ svcCall.pc = "done"
  /\ svcCall.serviceId \notin DOMAIN services

\* C24: under every interleaving of createBooking with updateService and
\* deleteService, a booking is inserted only for a service that is active
\* when the booking is inserted.
InsertedForActiveService ==
  [][Len(bookings') > Len(bookings)
       => LET serviceId == bookings'[Len(bookings')].serviceId
          IN /\ serviceId \in DOMAIN services
             /\ services[serviceId].isActive]_vars

\* ------------------------------------------------------------------------
\* createReview statement by statement (review.service.ts)
\* ------------------------------------------------------------------------

\* PrismaClientKnownRequestError P2002, what an insert that breaks a unique
\* index throws; the error handler replies 500.
UniqueConstraintError ==
  AppError("PrismaClientKnownRequestError", 500, "P2002",
           "Unique constraint failed")

\* include: { review: true } of the rows rvs: the booking has a review.
reviewOf(rvs, bookingId) ==
  \E i \in DOMAIN rvs : rvs[i].bookingId = bookingId

\* The error the checks of createReview throw for the booking as read,
\* NoError when they reach the insert.
createReviewError(bks, rvs, bookingId, userId) ==
  IF bookingId \notin DOMAIN bks
  THEN Error("Booking not found")
  ELSE IF bks[bookingId].userId # userId
  THEN Error("Unauthorized: You can only review your own bookings")
  ELSE IF bks[bookingId].status # "COMPLETED"
  THEN Error("You can only review completed sessions")
  ELSE IF reviewOf(rvs, bookingId)
  THEN Error("You have already reviewed this booking")
  ELSE NoError

\* 1. Verify the booking exists and is completed: tx.booking.findUnique with
\* its review, and the checks on what was read.
verifyBooking(c, bookingId, userId) ==
  LET err == createReviewError(bookings, reviews, bookingId, userId)
  IN /\ reviewCalls[c].pc = "idle"
     /\ reviewCalls' = [reviewCalls EXCEPT ![c] =
          [pc |-> IF err = NoError THEN "create" ELSE "done",
           bookingId |-> bookingId, userId |-> userId, err |-> err]]
     /\ UNCHANGED <<expertVars, authVars, statusCalls, reviews, svcCall, syncTx, observed, services, availability,
                    bookings, calls, last>>

\* Review_bookingId_key lets every row in.
uniqueBookingIdOff(rvs, bookingId) == TRUE

\* Review_bookingId_key: no row of rvs has the bookingId.
uniqueBookingId(rvs, bookingId) == ~reviewOf(rvs, bookingId)

\* 2. Create the Review, and the commit: the insert of a second row for the
\* booking breaks the unique index and throws.
createTheReview(c) ==
  /\ reviewCalls[c].pc = "create"
  /\ IF uniqueBookingId(reviews, reviewCalls[c].bookingId)
     THEN /\ reviews' = Append(reviews, [bookingId |-> reviewCalls[c].bookingId,
                                         userId |-> reviewCalls[c].userId])
          /\ reviewCalls' = [reviewCalls EXCEPT ![c].pc = "done"]
     ELSE /\ reviewCalls' = [reviewCalls EXCEPT ![c].pc = "done",
                                                ![c].err = UniqueConstraintError]
          /\ UNCHANGED reviews
  /\ UNCHANGED <<expertVars, authVars, statusCalls, svcCall, syncTx, observed, services, availability, bookings,
                 calls, last>>

\* createReviewHandler (or the error handler) sends the reply.
replyReview(c) ==
  /\ reviewCalls[c].pc = "done"
  /\ reviewCalls' = [reviewCalls EXCEPT ![c] = NoReviewCall]
  /\ UNCHANGED <<expertVars, authVars, statusCalls, reviews, svcCall, syncTx, observed, services, availability,
                 bookings, calls, last>>

\* No createReview call is between its first statement and its reply.
noReviewInFlight == \A c \in Clients : reviewCalls[c].pc = "idle"

\* The statuses the bookings are moved to before they are reviewed.
ReviewedStatuses == {"COMPLETED", "CANCELLED"}

NextReview ==
  \/ \E serviceId \in {"s1", "s2"} :
       noReviewInFlight /\ createBooking("u1", serviceId, Monday(10, 0))
  \/ \E bookingId \in DOMAIN bookings, status \in ReviewedStatuses :
       noReviewInFlight /\ updateBookingStatus(bookingId, status, "u1")
  \/ \E c \in Clients, bookingId \in BookingIds(bookings), userId \in Users :
       verifyBooking(c, bookingId, userId)
  \/ \E c \in Clients : createTheReview(c)
  \/ \E c \in Clients : replyReview(c)

\* Users review their bookings, the statements of concurrent createReview
\* calls interleaved; bookings are placed and their status is changed between
\* the review calls.
SpecReview == Init /\ [][NextReview]_vars

\* The reviews of the booking.
reviewsOf(rvs, bookingId) == {i \in DOMAIN rvs : rvs[i].bookingId = bookingId}

\* C22: after every interleaving of createReview calls each booking has at
\* most one review and every review is by the user of its booking; a step
\* inserts a review only for a COMPLETED booking, on behalf of the user of
\* the booking; a call that ends without error has inserted exactly one
\* review, and a call that ends with an error has inserted nothing.
OneVerifiedReview ==
  /\ [](\A i \in DOMAIN reviews :
          /\ Cardinality(reviewsOf(reviews, reviews[i].bookingId)) = 1
          /\ reviews[i].bookingId \in DOMAIN bookings
          /\ reviews[i].userId = bookings[reviews[i].bookingId].userId)
  /\ [][/\ reviews' # reviews
             => /\ Len(reviews') = Len(reviews) + 1
                /\ reviews = SubSeq(reviews', 1, Len(reviews))
                /\ bookings[reviews'[Len(reviews')].bookingId].status = "COMPLETED"
        /\ \A c \in Clients :
             (reviewCalls[c].pc # "done" /\ reviewCalls'[c].pc = "done")
               => IF reviewCalls'[c].err = NoError
                  THEN reviews' = Append(reviews,
                                         [bookingId |-> reviewCalls'[c].bookingId,
                                          userId |-> reviewCalls'[c].userId])
                  ELSE reviews' = reviews]_vars

\* C22 witness: two createReview calls for the same COMPLETED booking both
\* passed the checks; one inserted the review and the other was refused by
\* the unique index.
OneVerifiedReviewWitness ==
  /\ reviewCalls["c1"].pc = "done"
  /\ reviewCalls["c2"].pc = "done"
  /\ reviewCalls["c1"].bookingId = reviewCalls["c2"].bookingId
  /\ reviewCalls["c1"].err = NoError
  /\ reviewCalls["c2"].err = UniqueConstraintError
  /\ Len(reviews) = 1

\* C23: in every reachable state every stored availability row has its day
\* in 0..6, its start and its end in zero-padded 24-hour HH:MM form, and its
\* end strictly after its start.
StoredSlotsWellFormed ==
  \A row \in availability :
    slotAsRequired(Slot(row.dayOfWeek, row.startTime, row.endTime))

\* C23 witness: expert e2 has stored slots, and the request after that, with
\* a slot that ends before it starts, was refused by the validator.
StoredSlotsWitness ==
  /\ slotsStored(slotsOf(availability, "e2")) = {SlotMorning, SlotLate}
  /\ last.op = "syncAvailability"
  /\ last.err = ValidationError

\* ------------------------------------------------------------------------
\* createBooking statement by statement, with PUT /availability
\* ------------------------------------------------------------------------

\* The schedules expert e1 submits while bookings are placed.
RacingBodies == {<<>>, <<SlotMorning>>, <<SlotLate>>}

NextBookingSchedule ==
  \/ \E c \in Clients, startTime \in CatalogStartTimes :
       fetchService(c, "s1", startTime)
  \/ \E c \in Clients : verifyAvailability(c)
  \/ \E c \in Clients : checkOverlap(c)
  \/ \E c \in Clients : createTheBooking(c)
  \/ \E c \in Clients : reply(c)
  \/ \E slots \in RacingBodies : syncAvailability("e1", slots, FALSE)

\* Clients book expert e1 while e1 replaces the weekly schedule: the
\* statements of createBooking interleave with committed replacements.
SpecBookingSchedule == Init /\ [][NextBookingSchedule]_vars

\* C25: under every interleaving of createBooking with the replacement of
\* the weekly schedule, a booking for an expert is inserted only if the
\* working-hours check passes on the schedule committed at the moment of the
\* insert.
InsertedWithinCommittedSchedule ==
  [][Len(bookings') > Len(bookings)
       => LET row == bookings'[Len(bookings')]
          IN row.expertId # NULL
               => isTimeWithinAvailability(availability, row.expertId, row.startTime,
                                           row.endTime - row.startTime)]_vars

\* ------------------------------------------------------------------------
\* Concurrent updateBookingStatus calls, statement by statement
\* ------------------------------------------------------------------------

\* The statuses and the actors of the concurrent calls.
RacingStatuses == {"CONFIRMED", "CANCELLED"}
RacingActors == {"u1", "e1"}

\* 1. prisma.booking.findFirst, and steps 2 and 3 on the row it returned.
findBooking(c, bookingId, status, actorId) ==
  LET err == updateBookingStatusError(bookings, bookingId, status, actorId)
  IN /\ statusCalls[c].pc = "idle"
     /\ statusCalls' = [statusCalls EXCEPT ![c] =
          [pc |-> IF err = NoError THEN "update" ELSE "done",
           bookingId |-> bookingId, status |-> status, actorId |-> actorId,
           err |-> err]]
     /\ UNCHANGED <<expertVars, authVars, reviewVars, svcCall, syncTx, observed, services, availability,
                    bookings, calls, last>>

\* prisma.booking.update({ where: { id: bookingId }, data: { status } }).
updateTheBooking(c) ==
  /\ statusCalls[c].pc = "update"
  /\ bookings' = update(bookings, statusCalls[c].bookingId, statusCalls[c].status)
  /\ statusCalls' = [statusCalls EXCEPT ![c].pc = "done"]
  /\ UNCHANGED <<expertVars, authVars, reviewVars, svcCall, syncTx, observed, services, availability,
                 calls, last>>

\* updateBookingStatusHandler (or the error handler) sends the reply.
replyStatus(c) ==
  /\ statusCalls[c].pc = "done"
  /\ statusCalls' = [statusCalls EXCEPT ![c] = NoStatusCall]
  /\ UNCHANGED <<expertVars, authVars, reviewVars, svcCall, syncTx, observed, services, availability,
                 bookings, calls, last>>

NextStatusInterleaved ==
  \/ \E startTime \in CatalogStartTimes : createBooking("u1", "s1", startTime)
  \/ \E c \in Clients, bookingId \in BookingIds(bookings),
        status \in RacingStatuses, actorId \in RacingActors :
       findBooking(c, bookingId, status, actorId)
  \/ \E c \in Clients : updateTheBooking(c)
  \/ \E c \in Clients : replyStatus(c)

\* The user and the expert of a booking change its status in concurrent
\* requests, the read and the write of each interleaved with the other's.
SpecStatusInterleaved == Init /\ [][NextStatusInterleaved]_vars

\* C26: of two concurrent updateBookingStatus calls on the same booking that
\* request the same status at most one succeeds, for every interleaving of
\* their reads and writes: no call writes a status that another call has
\* written to the booking since the first call read it, so no write finds
\* the booking already in the status it sets.
SameStatusAtMostOnce ==
  [][\A c \in Clients :
       (statusCalls[c].pc = "update" /\ statusCalls'[c].pc = "done")
         => bookings[statusCalls[c].bookingId].status # statusCalls[c].status]_vars

\* ------------------------------------------------------------------------
\* What the operations leave of the Booking table
\* ------------------------------------------------------------------------

\* The fields of a booking other than its status.
BookingFrame ==
  {"userId", "serviceId", "expertId", "organizationId", "startTime", "endTime",
   "totalPrice", "notes"}

\* The rows after differ from the rows before at most in the status of the
\* booking bookingId.
onlyStatusOf(before, after, bookingId) ==
  /\ DOMAIN after = DOMAIN before
  /\ \A i \in DOMAIN before :
       /\ \A f \in BookingFrame : after[i][f] = before[i][f]
       /\ i # bookingId => after[i] = before[i]

\* C27: updateBookingStatus changes nothing but the status of the booking it
\* addresses: the other fields of that booking and every field of every
\* other booking stay; updateService and deleteService leave the Booking
\* table as it is; no step removes a booking, so the set of booking ids only
\* grows.
OnlyStatusChanges ==
  /\ [](/\ \A bookingId \in BookingIds(bookings), status \in BOOKING_STATUS,
             actorId \in Actors :
             onlyStatusOf(bookings,
                          updateBookingStatusRows(bookings, bookingId, status, actorId),
                          bookingId)
        /\ \A serviceId \in DOMAIN services, ownerId \in Providers :
             /\ serviceWriteBookings(
                  deleteServiceRows(services, bookings, serviceId, ownerId),
                  bookings) = bookings
             /\ \A data \in ServiceUpdates :
                  serviceWriteBookings(
                    updateServiceRows(services, serviceId, ownerId, data),
                    bookings) = bookings)
  /\ [][/\ DOMAIN bookings \subseteq DOMAIN bookings'
        /\ \A c \in Clients :
             (statusCalls[c].pc = "update" /\ statusCalls'[c].pc = "done")
               => /\ onlyStatusOf(bookings, bookings', statusCalls[c].bookingId)
                  /\ bookings'[statusCalls[c].bookingId].status
                       = statusCalls[c].status]_vars

\* C27 witness: there are two bookings and an updateBookingStatus call has
\* just cancelled the first; the second is still PENDING.
OnlyStatusWitness ==
  /\ statusCalls["c1"].pc = "done"
  /\ statusCalls["c1"].err = NoError
  /\ statusCalls["c1"].bookingId = 1
  /\ statusCalls["c1"].status = "CANCELLED"
  /\ Len(bookings) = 2
  /\ bookings[1].status = "CANCELLED"
  /\ bookings[2].status = "PENDING"
  /\ bookings[1].endTime = bookings[1].startTime + 60

\* ------------------------------------------------------------------------
\* Sessions: login, refresh, logout (auth.service.ts) and resetPassword
\* (password.service.ts), statement by statement
\* ------------------------------------------------------------------------

\* The tables and calls of the booking, availability and service modules.
bookingVars ==
  <<services, availability, bookings, calls, last, syncTx, observed, svcCall,
    statusCalls>>

\* Largest number of refresh tokens generated in the model.
MaxSessions == 3

\* The passwords an account has or is given: 0 is the password at
\* registration.
Passwords == {0, 1}

\* A RefreshSession row: the token whose hash it stores, the account it
\* belongs to, the password its chain of tokens started from at login, and
\* the token it was rotated from (0 for a login).
Session(token, account, cred, parent) ==
  [token |-> token, account |-> account, cred |-> cred, parent |-> parent]

AuthCall(pc, op, account, token, cred, issuedToken, err) ==
  [pc |-> pc, op |-> op, account |-> account, token |-> token, cred |-> cred,
   issuedToken |-> issuedToken, err |-> err]

InvalidCredentials == UnauthorizedError("Invalid email or password")
InvalidRefreshToken == UnauthorizedError("Invalid or expired refresh token")
InvalidResetToken == Error("Invalid or expired reset token")

\* PrismaClientKnownRequestError P2025, what prisma.refreshSession.delete
\* throws when the row is gone; the error handler replies 500.
RecordNotFoundError ==
  AppError("PrismaClientKnownRequestError", 500, "P2025",
           "Record to delete does not exist")

\* prisma.refreshSession.findUnique({ where: { tokenHash } }): the rows of
\* the table that store the hash of the token (at most one).
sessionsWithToken(rows, token) == {s \in rows : s.token = token}

\* The rows of the account (whereClause of resetPassword).
sessionsOfAccount(rows, account) == {s \in rows : s.account = account}

\* generateRandomToken(64): a token never generated before.
generateRandomToken == issued + 1

\* login 1, 2: find the account and verify the password.
verifyPassword(c, account, givenPassword) ==
  /\ authCalls[c].pc = "idle"
  /\ authCalls' = [authCalls EXCEPT ![c] =
       IF givenPassword = password[account]
       THEN AuthCall("create", "login", account, 0, givenPassword, 0, NoError)
       ELSE AuthCall("done", "login", account, 0, 0, 0, InvalidCredentials)]
  /\ UNCHANGED <<expertVars, bookingVars, reviewVars, sessions, password, issued, spent>>

\* login 3: prisma.refreshSession.create for the new token.
createLoginSession(c) ==
  /\ authCalls[c].pc = "create"
  /\ authCalls[c].op = "login"
  /\ issued < MaxSessions
  /\ issued' = generateRandomToken
  /\ sessions' = sessions \cup {Session(generateRandomToken, authCalls[c].account,
                                        authCalls[c].cred, 0)}
  /\ authCalls' = [authCalls EXCEPT ![c].pc = "done",
                                    ![c].issuedToken = generateRandomToken]
  /\ UNCHANGED <<expertVars, bookingVars, reviewVars, password, spent>>

\* refresh: prisma.refreshSession.findUnique and the expiry check.
findSession(c, token, expired) ==
  /\ authCalls[c].pc = "idle"
  /\ authCalls' = [authCalls EXCEPT ![c] =
       IF sessionsWithToken(sessions, token) = {} \/ expired
       THEN AuthCall("done", "refresh", NULL, token, 0, 0, InvalidRefreshToken)
       ELSE LET session == CHOOSE s \in sessionsWithToken(sessions, token) : TRUE
            IN AuthCall("delete", "refresh", session.account, token, session.cred,
                        0, NoError)]
  /\ UNCHANGED <<expertVars, bookingVars, reviewVars, sessions, password, issued, spent>>

\* prisma.refreshSession.delete never throws (a deleteMany).
recordToDeleteAny(rows, token) == TRUE

\* prisma.refreshSession.delete({ where: { id: session.id } }) finds its row.
recordToDelete(rows, token) == sessionsWithToken(rows, token) # {}

\* refresh, TOKEN ROTATION: the delete of the row found.
deleteSession(c) ==
  /\ authCalls[c].pc = "delete"
  /\ IF recordToDelete(sessions, authCalls[c].token)
     THEN /\ sessions' = sessions \ sessionsWithToken(sessions, authCalls[c].token)
          /\ authCalls' = [authCalls EXCEPT ![c].pc = "create"]
     ELSE /\ authCalls' = [authCalls EXCEPT ![c].pc = "done",
                                            ![c].err = RecordNotFoundError]
          /\ UNCHANGED sessions
  /\ UNCHANGED <<expertVars, bookingVars, reviewVars, password, issued, spent>>

\* refresh: prisma.refreshSession.create for the new token, and the return
\* of the new pair.
createRotatedSession(c) ==
  /\ authCalls[c].pc = "create"
  /\ authCalls[c].op = "refresh"
  /\ issued < MaxSessions
  /\ issued' = generateRandomToken
  /\ sessions' = sessions \cup {Session(generateRandomToken, authCalls[c].account,
                                        authCalls[c].cred, authCalls[c].token)}
  /\ spent' = spent \cup {authCalls[c].token}
  /\ authCalls' = [authCalls EXCEPT ![c].pc = "done",
                                    ![c].issuedToken = generateRandomToken]
  /\ UNCHANGED <<expertVars, bookingVars, reviewVars, password>>

\* logout: prisma.refreshSession.deleteMany({ where: { tokenHash } }).
logout(c, token) ==
  /\ authCalls[c].pc = "idle"
  /\ sessions' = sessions \ sessionsWithToken(sessions, token)
  /\ authCalls' = [authCalls EXCEPT ![c] =
       AuthCall("done", "logout", NULL, token, 0, 0, NoError)]
  /\ UNCHANGED <<expertVars, bookingVars, reviewVars, password, issued, spent>>

\* resetPassword 1-3: verify the reset token and update the passwordHash.
updatePassword(c, account, newPassword, tokenValid) ==
  /\ authCalls[c].pc = "idle"
  /\ IF tokenValid
     THEN /\ password' = [password EXCEPT ![account] = newPassword]
          /\ authCalls' = [authCalls EXCEPT ![c] =
               AuthCall("revoke", "resetPassword", account, 0, newPassword, 0,
                        NoError)]
     ELSE /\ authCalls' = [authCalls EXCEPT ![c] =
               AuthCall("done", "resetPassword", account, 0, 0, 0, InvalidResetToken)]
          /\ UNCHANGED password
  /\ UNCHANGED <<expertVars, bookingVars, reviewVars, sessions, issued, spent>>

\* resetPassword 4 with the session delete left out.
revokedNone(rows, account) == rows

\* resetPassword 4: prisma.refreshSession.deleteMany({ where: whereClause }).
revoked(rows, account) == rows \ sessionsOfAccount(rows, account)

\* resetPassword 4. Revoke All Sessions.
revokeAllSessions(c) ==
  /\ authCalls[c].pc = "revoke"
  /\ sessions' = revoked(sessions, authCalls[c].account)
  /\ authCalls' = [authCalls EXCEPT ![c].pc = "done"]
  /\ UNCHANGED <<expertVars, bookingVars, reviewVars, password, issued, spent>>

\* The controller (or the error handler) sends the reply.
replyAuth(c) ==
  /\ authCalls[c].pc = "done"
  /\ authCalls' = [authCalls EXCEPT ![c] = NoAuthCall]
  /\ UNCHANGED <<expertVars, bookingVars, reviewVars, sessions, password, issued, spent>>

\* The tokens a client may present: every token generated so far, and 0, a
\* token that was never generated.
Tokens == 0 .. issued

NextAuth ==
  \/ \E c \in Clients, account \in AuthAccounts, givenPassword \in Passwords :
       verifyPassword(c, account, givenPassword)
  \/ \E c \in Clients : createLoginSession(c)
  \/ \E c \in Clients, token \in Tokens, expired \in BOOLEAN :
       findSession(c, token, expired)
  \/ \E c \in Clients : deleteSession(c)
  \/ \E c \in Clients : createRotatedSession(c)
  \/ \E c \in Clients, token \in Tokens : logout(c, token)
  \/ \E c \in Clients, newPassword \in Passwords, tokenValid \in BOOLEAN :
       updatePassword(c, "u1", newPassword, tokenValid)
  \/ \E c \in Clients : revokeAllSessions(c)
  \/ \E c \in Clients : replyAuth(c)

\* Two clients of account u1 log in, rotate their refresh tokens, log out and reset the
\* password of u1, the statements of their calls interleaved.
SpecAuth == Init /\ [][NextAuth]_vars

\* ------------------------------------------------------------------------
\* Properties of the sessions
\* ------------------------------------------------------------------------

\* C28: a refresh token is redeemable at most once: a refresh that returns
\* a new pair and a logout leave no session that stores the token, a token
\* that no session stores is never stored again, and a refresh with such a
\* token fails with the 401 UnauthorizedError; no refresh returns a new pair
\* for a token that a refresh has already rotated, so of two concurrent
\* refresh calls with the same token at most one succeeds and at most one
\* new session is created.
RefreshTokenOnce ==
  /\ [](\A token \in spent : sessionsWithToken(sessions, token) = {})
  /\ [][/\ \A token \in 1 .. issued :
             sessionsWithToken(sessions, token) = {}
               => sessionsWithToken(sessions', token) = {}
        /\ \A c \in Clients :
             /\ (authCalls[c].pc = "idle" /\ authCalls'[c].op = "logout")
                  => sessionsWithToken(sessions', authCalls'[c].token) = {}
             /\ (/\ authCalls[c].pc = "idle"
                 /\ authCalls'[c].op = "refresh"
                 /\ sessionsWithToken(sessions, authCalls'[c].token) = {})
                  => /\ authCalls'[c].pc = "done"
                     /\ authCalls'[c].err = InvalidRefreshToken
             /\ (/\ authCalls[c].op = "refresh"
                 /\ authCalls[c].pc = "create"
                 /\ authCalls'[c].pc = "done")
                  => /\ authCalls[c].token \notin spent
                     /\ Cardinality(sessions') = Cardinality(sessions) + 1]_vars

\* C28 witness: two refresh calls presented the same token and both found
\* its session; one returned a new pair, the other failed at the delete.
RefreshTokenWitness ==
  /\ authCalls["c1"].op = "refresh"
  /\ authCalls["c2"].op = "refresh"
  /\ authCalls["c1"].token = authCalls["c2"].token
  /\ authCalls["c1"].pc = "done"
  /\ authCalls["c2"].pc = "done"
  /\ authCalls["c1"].err = NoError
  /\ authCalls["c2"].err = RecordNotFoundError

\* C29: once resetPassword has succeeded for an account no session of the
\* account that descends from a login with the password it replaced
\* remains, under every interleaving with login and refresh calls: while
\* no reset is between its two statements, every session of an account
\* descends from a login with the password the account has now.
ResetRevokesAllSessions ==
  \A s \in sessions :
    (\A c \in Clients :
       ~(authCalls[c].pc = "revoke" /\ authCalls[c].account = s.account))
      => s.cred = password[s.account]

\* ------------------------------------------------------------------------
\* The public profile of an expert and its Redis cache (expert service)
\* ------------------------------------------------------------------------

\* The profiles updateExpertProfile writes; h0 is the profile at
\* registration.
Headlines == {"h0", "h1"}

ExpertCall(pc, op, value) == [pc |-> pc, op |-> op, value |-> value]

\* The tables and calls of the other modules.
otherVars == <<bookingVars, reviewVars, authVars>>

\* getExpertByUsername 1. Check Cache: redis.get; a hit returns the entry.
checkCache(c) ==
  /\ expertCalls[c].pc = "idle"
  /\ expertCalls' = [expertCalls EXCEPT ![c] =
       IF cache # NULL
       THEN ExpertCall("done", "getExpertByUsername", cache)
       ELSE ExpertCall("fetch", "getExpertByUsername", NULL)]
  /\ UNCHANGED <<otherVars, profile, cache>>

\* getExpertByUsername 2. Fetch from DB.
fetchFromDB(c) ==
  /\ expertCalls[c].pc = "fetch"
  /\ expertCalls' = [expertCalls EXCEPT ![c].pc = "set", ![c].value = profile]
  /\ UNCHANGED <<otherVars, profile, cache>>

\* getExpertByUsername 3. Cache Result: redis.set, and the return.
cacheResult(c) ==
  /\ expertCalls[c].pc = "set"
  /\ cache' = expertCalls[c].value
  /\ expertCalls' = [expertCalls EXCEPT ![c].pc = "done"]
  /\ UNCHANGED <<otherVars, profile>>

\* updateExpertProfile 1. Update DB.
updateDB(c, data) ==
  /\ expertCalls[c].pc = "idle"
  /\ profile' = data
  /\ expertCalls' = [expertCalls EXCEPT ![c] =
       ExpertCall("invalidate", "updateExpertProfile", data)]
  /\ UNCHANGED <<otherVars, cache>>

\* updateExpertProfile 2. Invalidate Cache: redis.del, and the return.
invalidateCache(c) ==
  /\ expertCalls[c].pc = "invalidate"
  /\ cache' = NULL
  /\ expertCalls' = [expertCalls EXCEPT ![c].pc = "done"]
  /\ UNCHANGED <<otherVars, profile>>

\* The entry reaches its time to live (CACHE_TTL_SECONDS) and Redis drops it.
expire ==
  /\ cache # NULL
  /\ cache' = NULL
  /\ UNCHANGED <<otherVars, profile, expertCalls>>

\* The controller sends the reply.
replyExpert(c) ==
  /\ expertCalls[c].pc = "done"
  /\ expertCalls' = [expertCalls EXCEPT ![c] = NoExpertCall]
  /\ UNCHANGED <<otherVars, profile, cache>>

NextExpert ==
  \/ \E c \in Clients : checkCache(c)
  \/ \E c \in Clients : fetchFromDB(c)
  \/ \E c \in Clients : cacheResult(c)
  \/ \E c \in Clients, data \in Headlines : updateDB(c, data)
  \/ \E c \in Clients : invalidateCache(c)
  \/ expire
  \/ \E c \in Clients : replyExpert(c)

\* Visitors read the public profile of e1 while e1 edits it, the statements
\* of the calls interleaved.
SpecExpert == Init /\ [][NextExpert]_vars

\* C30: once the invalidation of an update and every read that was in
\* flight have finished, the cache holds no profile other than the stored
\* one, so a getExpertByUsername call that starts after updateExpertProfile
\* has returned yields the updated profile.
CacheNeverStale ==
  (\A c \in Clients : expertCalls[c].pc \in {"idle", "done"})
    => cache \in {NULL, profile}

====
